---- MODULE Spec2Model ----
(***************************************************************************)
(* Model of the profile store (db.py), the persistent profile cache        *)
(* (cache_manager.py), the validators (validators.py), the retry of        *)
(* transport calls (rate_limiter.py) and the handlers (handlers.py, wired  *)
(* in main.py).                                                            *)
(*                                                                         *)
(* Texts and usernames are sequences of one-character strings, so that     *)
(* strip / lower / re.search are computed and not assumed.                 *)
(* An optional value (Python None or a missing dict key) is a set with at  *)
(* most one element: {} is None, {v} is the value v.                       *)
(*                                                                         *)
(* Transport calls that answer the acting user (q.answer, reply_text) are  *)
(* taken to succeed; the outcome of a handler is recorded in ev.           *)
(*                                                                         *)
(* Spec is the bot of the profile flows, SpecDb the store interface called *)
(* directly, SpecFlow the report, AFK and admin-application flows with the *)
(* routing of main(): there every update goes through Route, which follows *)
(* the dispatch of python-telegram-bot (one handler group, first accepting *)
(* handler wins, a conversation asks its state handlers before its         *)
(* fallbacks).  SpecAdmin is the handlers that check a privilege, called   *)
(* by every user; SpecNotify the handlers that notify the administrators   *)
(* while deliveries fail; SpecRetry the coroutine retry_telegram_request   *)
(* (rate_limiter.py) step by step; SpecCache the profile cache called      *)
(* directly, with its clock and its file, and SpecCacheTTL the same over   *)
(* restarts of the process.  SpecLimiter is a UserRateLimiter called       *)
(* directly, SpecReports the reports table called directly, SpecDirectory  *)
(* the user list and the profile cards, SpecButtons the inline keyboards   *)
(* with the callback patterns of main(), SpecAdminEdit the admin edit      *)
(* session and SpecReportFlow the report flow with senders that have no    *)
(* username.                                                               *)
(***************************************************************************)
EXTENDS Integers, Sequences, FiniteSets, TLC

(***************************************************************************)
(* Bounds                                                                  *)
(***************************************************************************)
\* highest row id the store hands out in a run (AUTOINCREMENT is unbounded)
MaxId == 3
\* number of updates (messages, button presses, restarts) handled in a run
MaxUpdates == 6
\* rows the reports table can take
MaxReports == 2
\* number of updates handled in a run of the report, AFK and application flows
MaxFlowUpdates == 5
\* number of calls of retry_telegram_request in a run
MaxRequests == 2
\* longest 'retry after' the transport signals, in seconds
MaxRetryAfter == 2
\* number of calls made on the profile cache in a run
MaxCacheCalls == 4
\* latest time the clock of the profile cache reaches in a run, in seconds
MaxClock == 3
\* number of calls made on a rate limiter in a run
MaxLimiterCalls == 5
\* number of calls made on the report store in a run
MaxReportCalls == 5
\* highest report id the store hands out when it is called directly
MaxReportIds == 3

(***************************************************************************)
(* Configuration (config.py), with small stand-ins for the Telegram ids    *)
(***************************************************************************)
ADMIN_IDS == {3}
SUPER_ADMIN_ID == 4
MIN_PROFILE_LENGTH == 10
MAX_PROFILE_LENGTH == 5000
\* seconds a cache entry lives (300 in config.py; a small stand-in)
PROFILE_CACHE_TTL == 2
\* requests a user may make per window (10 in config.py; a small stand-in)
RATE_LIMIT_PER_SECOND == 3

(***************************************************************************)
(* Characters, texts, usernames                                            *)
(***************************************************************************)
WS == {" ", "\n"}

U_alice == <<"a","l","i","c","e">>
U_Alice == <<"A","l","i","c","e">>
U_seed == <<"s","e","e","d">>
U_nurkotik == <<"n","u","r","k","o","t","i","k">>
U_admin == <<"a","d","m","i","n">>
U_boss == <<"b","o","s","s">>

\* effective_user.id -> effective_user.username of the users that talk to the bot
Users == 1..4
UsernameOf == <<U_seed, U_nurkotik, U_admin, U_boss>>
\* the users that send texts and press the buttons of the profile flows
Members == {u \in Users : u \notin ADMIN_IDS /\ u # SUPER_ADMIN_ID}
\* the users that press moderation buttons: one member, the admin, the super-admin
Pressers == {1} \cup ADMIN_IDS \cup {SUPER_ADMIN_ID}
\* usernames that occur in callback payloads and store calls
Usernames == {UsernameOf[u] : u \in Members}

\* message texts: a valid padded text and a too short one (T_bad has a forbidden word)
T_ok == <<" ","h","e","l","l","o"," ","w","o","r","l","d"," ">>
T_short == <<"h","i"," ","t","h","e","r","e">>
T_bad == <<"I"," ","a","m"," ","a"," ","B","O","T","!">>
Texts == {T_ok, T_short}

(***************************************************************************)
(* String helpers used by validators.py                                    *)
(***************************************************************************)
RECURSIVE lstrip(_)
lstrip(s) ==
    IF s # <<>> /\ Head(s) \in WS THEN lstrip(Tail(s)) ELSE s

RECURSIVE rstrip(_)
rstrip(s) ==
    IF s # <<>> /\ s[Len(s)] \in WS THEN rstrip(SubSeq(s, 1, Len(s) - 1)) ELSE s

\* str.strip()
strip(s) == rstrip(lstrip(s))

lower_char(c) ==
    CASE c = "A" -> "a"
      [] c = "B" -> "b"
      [] c = "I" -> "i"
      [] c = "O" -> "o"
      [] c = "T" -> "t"
      [] c = "C" -> "c"
      [] c = "F" -> "f"
      [] c = "K" -> "k"
      [] c = "~A" -> "~a"
      [] c = "~O" -> "~o"
      [] c = "~P" -> "~p"
      [] c = "~R" -> "~r"
      [] c = "~Z" -> "~z"
      [] OTHER -> c

\* str.lower()
lower(s) == [i \in 1..Len(s) |-> lower_char(s[i])]

\* re.search(pattern, text) for a literal pattern
re_search(pat, s) ==
    \E i \in 1..(Len(s) - Len(pat) + 1) : SubSeq(s, i, i + Len(pat) - 1) = pat

\* re.sub(r'\s+', ' ', text)
RECURSIVE collapse_ws(_)
collapse_ws(s) ==
    IF s = <<>> THEN <<>>
    ELSE IF Head(s) \in WS
         THEN <<" ">> \o collapse_ws(lstrip(s))
         ELSE <<Head(s)>> \o collapse_ws(Tail(s))

FORBIDDEN_PATTERNS ==
    { <<"s","p","a","m">>, <<"p","h","i","s","h","i","n","g">>, <<"s","c","a","m">>,
      <<"b","o","t">>, <<"h","a","c","k">>, <<"x","x","x">>, <<"p","o","r","n">>,
      <<"1","8","+">>, <<"n","u","d","e","s">> }

\* validators.validate_profile_text: TRUE iff is_valid
validate_profile_text(text) ==
    IF text = <<>> THEN FALSE
    ELSE LET t == strip(text) IN
         /\ ~ (Len(t) < MIN_PROFILE_LENGTH)
         /\ ~ (Len(t) > MAX_PROFILE_LENGTH)
         /\ ~ \E pat \in FORBIDDEN_PATTERNS : re_search(pat, lower(t))

\* validators.sanitize_text with remove_urls = False
sanitize_text(text) ==
    IF text = <<>> THEN <<>> ELSE collapse_ws(strip(text))

\* validators.sanitize_profile_data on a draft: note is only stripped, the other
\* string fields go through sanitize_text, None and non-strings are kept
sanitize_profile_data(d) ==
    [d EXCEPT !.username = sanitize_text(@),
              !.note = strip(@),
              !.added_by = sanitize_text(@)]

(***************************************************************************)
(* Profile store (db.py).  A store is a set of rows; seq is the            *)
(* AUTOINCREMENT counter of the profiles table (ids are never reused).     *)
(***************************************************************************)
\* _seed_profiles: the seed list (one of its entries is kept)
SeedUsernames == {U_nurkotik}

SeedRow(id, name) ==
    [id |-> id, username |-> name, note |-> <<>>, added_by |-> U_seed,
     added_by_id |-> {}, status |-> "approved"]

\* SELECT * FROM profiles WHERE username = ?   (BINARY collation: exact match)
get_profile_by_username(P, username) == {p \in P : p.username = username}

\* SELECT * FROM profiles WHERE id = ?
get_profile_by_id(P, pid) == {p \in P : p.id = pid}

\* SELECT * FROM profiles WHERE status = ?   (the rows, as a set)
get_profiles_by_status(P, status) == {p \in P : p.status = status}

\* faulty variant: the username column without its UNIQUE constraint
UniqueViolation_none(P, username) == FALSE

\* the UNIQUE constraint of the username column (init_db)
UniqueViolation(P, username) == \E p \in P : p.username = username

\* add_profile: status = profile.get('status') or ('pending' if added_by != 'seed' else 'approved')
add_profile_status(profile) ==
    IF profile.status # {} THEN CHOOSE st \in profile.status : TRUE
    ELSE IF profile.added_by # U_seed THEN "pending" ELSE "approved"

\* the row that add_profile inserts under id pid
add_profile_row(profile, pid) ==
    [id |-> pid, username |-> profile.username, note |-> profile.note,
     added_by |-> profile.added_by, added_by_id |-> profile.added_by_id,
     status |-> add_profile_status(profile)]

\* add_profile: the store after the INSERT (the caller checks UniqueViolation)
add_profile(P, profile, pid) == P \cup {add_profile_row(profile, pid)}

\* update_profile_status_by_id: UPDATE profiles SET status = ? WHERE id = ?
update_profile_status_by_id(P, pid, status) ==
    {IF p.id = pid THEN [p EXCEPT !.status = status] ELSE p : p \in P}

\* faulty variant: every update also sends the row back to moderation
apply_changes_pending(p, changes) ==
    [f \in DOMAIN p |-> IF f \in DOMAIN changes THEN changes[f]
                        ELSE IF f = "status" THEN "pending" ELSE p[f]]

\* the row p after 'SET k = ?' for every key k of the dict changes
apply_changes(p, changes) ==
    [f \in DOMAIN p |-> IF f \in DOMAIN changes THEN changes[f] ELSE p[f]]

\* update_profile: UPDATE profiles SET ... WHERE username = ?
update_profile(P, username, changes) ==
    {IF p.username = username THEN apply_changes(p, changes) ELSE p : p \in P}

\* delete_profile: DELETE FROM profiles WHERE username = ?
delete_profile(P, username) == {p \in P : p.username # username}

\* faulty variant: seeding writes its row over the row of the username
RECURSIVE seed_profiles_replace(_, _, _)
seed_profiles_replace(P, n, todo) ==
    IF todo = {} THEN [P |-> P, seq |-> n]
    ELSE LET name == CHOOSE x \in todo : TRUE IN
         seed_profiles_replace(delete_profile(P, name) \cup {SeedRow(n + 1, name)},
                               n + 1, todo \ {name})

\* _seed_profiles: insert every seed username that is missing
RECURSIVE seed_profiles(_, _, _)
seed_profiles(P, n, todo) ==
    IF todo = {} THEN [P |-> P, seq |-> n]
    ELSE LET name == CHOOSE x \in todo : TRUE IN
         IF get_profile_by_username(P, name) # {}
         THEN seed_profiles(P, n, todo \ {name})
         ELSE seed_profiles(P \cup {SeedRow(n + 1, name)}, n + 1, todo \ {name})

(***************************************************************************)
(* State                                                                   *)
(***************************************************************************)
VARIABLES
    profiles,    \* rows of the profiles table
    seq,         \* AUTOINCREMENT counter of the profiles table
    cache,       \* PersistentProfileCache.cache: pid -> cached profile
    user_data,   \* context.user_data of each user
    conv,        \* ConversationHandler state of each user (new_conv, edit_conv)
    ev,          \* the last handled event and its outcome
    decided,     \* history: ids on which a review decision changed the store
    freed,       \* history: usernames freed by rejecting a pending profile
    updates,     \* number of updates handled so far
    reports,     \* rows of the reports table
    rseq,        \* AUTOINCREMENT counter of the reports table
    upd,         \* the last update taken from the transport and the handler it went to
    failing,     \* chat ids to which the transport cannot deliver at present
    retry,       \* the locals of the running retry_telegram_request coroutine
    timestamps,  \* PersistentProfileCache.timestamps: pid -> time of the last write
    now,         \* datetime.now(), in seconds since the start
    cache_file,  \* the 'cache' object last written to PROFILE_CACHE_FILE
    history,     \* history: the map that the calls made on the profile cache describe
    limiter,     \* the fields of a UserRateLimiter: max_rate, time_period, requests
    verdicts,    \* history: the calls made on the limiter and the times of those it allowed
    filed,       \* history: the reports added since the last clear, and the last store call
    flow         \* history: per user, what the last report_start met, what was chosen since

vars == <<profiles, seq, cache, user_data, conv, ev, decided, freed, updates,
          reports, rseq, upd, failing, retry, timestamps, now, cache_file, history,
          limiter, verdicts, filed, flow>>

\* the transport, the retry coroutine and the clock and file of the cache: the
\* handlers of the flows read 'failing' and leave all of these as they are
flowenv ==
    <<failing, retry, timestamps, now, cache_file, history, limiter, verdicts, filed>>
envvars == <<flowenv, flow>>

NP_WAIT_TEXT == 1
RP_WAIT_REASON == 2
EP_WAIT_TEXT == 3
AFK_WAIT_DAYS == 4
AFK_WAIT_REASON == 5
AA_WAIT_TEXT == 6
END == -1

EmptyUserData ==
    [new_profile_preview |-> {}, edit_username |-> {}, edit_profile_preview |-> {},
     report_category |-> {}, afk_days |-> {},
     admin_edit_username |-> {}, admin_edit_profile |-> {}]

\* the five ConversationHandlers of main(): END stands for 'no conversation'
NoConv == [new |-> END, report |-> END, afk |-> END, admin_app |-> END, edit |-> END]

\* an update: a text message or a button press (callback data as the list of its
\* ':'-separated parts) of a user, and the handler the application ran for it
Update(kind, user, data, handler) ==
    [kind |-> kind, user |-> user, data |-> data, handler |-> handler]

Event(op, user, pid, uname, resp, notified) ==
    [op |-> op, user |-> user, pid |-> pid, uname |-> uname, resp |-> resp,
     notified |-> notified, shown |-> {}]

\* the event e of a handler that sent the user a list or a card of these rows
Showing(e, rows) == [e EXCEPT !.shown = rows]

\* row ids that can occur
Ids == 1..MaxId

\* PersistentProfileCache.set(pid, profile)
cache_set(c, pid, profile) == [c EXCEPT ![pid] = {profile}]

\* the username of an optional draft, <<>> when there is none
DraftName(d) == IF d = {} THEN <<>> ELSE (CHOOSE x \in d : TRUE).username

\* faulty variant: the privilege check lets everybody in
IsAdmin_all(uid) == TRUE

\* 'user.id != config.SUPER_ADMIN_ID and user.id not in config.ADMIN_IDS', negated
IsAdmin(uid) == uid = SUPER_ADMIN_ID \/ uid \in ADMIN_IDS

\* no retry_telegram_request is running
RetryIdle ==
    [pc |-> "idle", max_retries |-> 0, backoff_factor |-> 0, attempt |-> 0,
     last_error |-> {}, wait_time |-> 0, clock |-> 0, log |-> <<>>,
     outcome |-> [kind |-> "none", error |-> {}]]

\* UserRateLimiter.__init__(max_rate=None, time_period=1): 'max_rate or config...'
UserRateLimiter(max_rate, time_period) ==
    [max_rate |-> IF max_rate = {} \/ max_rate = {0} THEN RATE_LIMIT_PER_SECOND
                  ELSE CHOOSE x \in max_rate : TRUE,
     time_period |-> IF time_period = {} THEN 1 ELSE CHOOSE x \in time_period : TRUE,
     requests |-> [u \in Users |-> <<>>]]

\* the user has not asked for the report flow: no category keyboard was sent
NoReportFlow == [shown |-> FALSE, had_record |-> FALSE, chosen |-> {}]

\* no call has been made on the report store
NoReportCalls ==
    [calls |-> 0, added |-> <<>>,
     last |-> [op |-> "none", rid |-> 0, rows |-> <<>>, ok |-> FALSE, had |-> FALSE]]

\* no call has been made on the limiter
NoVerdicts ==
    [calls |-> 0, granted |-> [u \in Users |-> <<>>],
     last |-> [op |-> "none", user |-> 0, allowed |-> FALSE, reset |-> 0, at |-> 0,
               after_refusal |-> FALSE]]

\* no call has been made on the profile cache: the map it is to behave like is
\* empty, no id has been set
NoCalls ==
    [calls |-> 0, map |-> [i \in Ids |-> {}], set_at |-> [i \in Ids |-> {}],
     written_at |-> [i \in Ids |-> {}],
     last |-> [op |-> "none", pid |-> 0, result |-> {}, raised |-> FALSE, at |-> 0]]

\* main(): db.init_db() on an empty database, empty cache, no sessions
Init ==
    LET s == seed_profiles({}, 0, SeedUsernames) IN
    /\ profiles = s.P
    /\ seq = s.seq
    /\ cache = [i \in Ids |-> {}]
    /\ user_data = [u \in Users |-> EmptyUserData]
    /\ conv = [u \in Users |-> NoConv]
    /\ ev = Event("init", 0, 0, <<>>, "none", {})
    /\ decided = {}
    /\ freed = {}
    /\ updates = 0
    /\ reports = {}
    /\ rseq = 0
    /\ upd = Update("none", 0, <<>>, "none")
    /\ failing = {}
    /\ retry = RetryIdle
    /\ timestamps = [i \in Ids |-> {}]
    /\ now = 0
    /\ cache_file = [i \in Ids |-> {}]
    /\ history = NoCalls
    /\ limiter = UserRateLimiter({}, {})
    /\ verdicts = NoVerdicts
    /\ filed = NoReportCalls
    /\ flow = [u \in Users |-> NoReportFlow]

(***************************************************************************)
(* New-profile flow (handlers.py)                                          *)
(***************************************************************************)
\* the draft dict built by new_profile_receive (status 'pending') and by
\* try_auto_profile_submit (no 'status' key)
Draft(u, note, status) ==
    [username |-> UsernameOf[u], note |-> note, added_by |-> UsernameOf[u],
     added_by_id |-> {u}, status |-> status]

\* profile_new_start_cb; reached as entry point of new_conv, or as the plain
\* CallbackQueryHandler when new_conv is already waiting (result then ignored)
ProfileNewStartCb(u) ==
    LET existing == get_profile_by_username(profiles, UsernameOf[u])
        approved == \E p \in existing : p.status = "approved"
    IN
    /\ conv' = [conv EXCEPT ![u].new = IF approved THEN @ ELSE NP_WAIT_TEXT]
    /\ ev' = Event("profile_new_start", u, 0, UsernameOf[u],
                   IF approved THEN "has_approved" ELSE "prompt", {})
    /\ UNCHANGED <<profiles, seq, cache, user_data, decided, freed>>

\* new_profile_receive: the text handler of new_conv in state NP_WAIT_TEXT
NewProfileReceive(u, text) ==
    /\ conv[u].new = NP_WAIT_TEXT
    /\ user_data' = [user_data EXCEPT
                        ![u].new_profile_preview = {Draft(u, text, {"pending"})}]
    /\ conv' = [conv EXCEPT ![u].new = END]
    /\ ev' = Event("new_profile_receive", u, 0, UsernameOf[u], "preview", {})
    /\ UNCHANGED <<profiles, seq, cache, decided, freed>>

\* try_auto_profile_submit: the first global text handler, reached when no
\* conversation of the user is waiting for text
TryAutoProfileSubmit(u, msg) ==
    LET text == strip(msg) IN
    /\ conv[u].new # NP_WAIT_TEXT
    /\ conv[u].edit # EP_WAIT_TEXT
    /\ IF text = <<>> \/ Len(text) < 10
       THEN /\ ev' = Event("try_auto_profile_submit", u, 0, UsernameOf[u], "ignored", {})
            /\ UNCHANGED user_data
       ELSE /\ user_data' = [user_data EXCEPT
                                ![u].new_profile_preview = {Draft(u, text, {})}]
            /\ ev' = Event("try_auto_profile_submit", u, 0, UsernameOf[u], "preview", {})
    /\ UNCHANGED <<profiles, seq, cache, conv, decided, freed>>

\* the recipients of the moderation notification in new_profile_confirm_cb
notified_ids == ADMIN_IDS \cup (IF SUPER_ADMIN_ID # 0 THEN {SUPER_ADMIN_ID} ELSE {})

\* faulty variant: the first failed delivery ends the loop
RECURSIVE fan_out_abort(_, _)
fan_out_abort(todo, fails) ==
    IF todo = {} THEN {}
    ELSE LET aid == CHOOSE x \in todo : TRUE IN
         IF aid \in fails THEN {aid}
         ELSE {aid} \cup fan_out_abort(todo \ {aid}, fails)

\* 'for aid in notified_ids: try: send_message(chat_id=aid, ...) except Exception:
\* logger.exception(...)': the chat ids to which a delivery was attempted, when
\* the deliveries to the chat ids in fails raise
RECURSIVE fan_out(_, _)
fan_out(todo, fails) ==
    IF todo = {} THEN {}
    ELSE LET aid == CHOOSE x \in todo : TRUE IN
         IF aid \in fails THEN {aid} \cup fan_out(todo \ {aid}, fails)
         ELSE {aid} \cup fan_out(todo \ {aid}, fails)

\* faulty variant: the approved check of the confirm never fires
ConfirmConflict_never(existing) == FALSE

\* new_profile_confirm_cb: 'existing_profile and status == approved'
ConfirmConflict(existing) == \E p \in existing : p.status = "approved"

\* new_profile_confirm_cb.  profile_cache.delete does not exist in
\* PersistentProfileCache: the call raises AttributeError outside the try block,
\* after db.delete_profile has committed.
NewProfileConfirmCb(u) ==
    LET d == user_data[u].new_profile_preview IN
    IF d = {}
    THEN /\ ev' = Event("new_confirm", u, 0, <<>>, "no_data", {})
         /\ UNCHANGED <<profiles, seq, cache, user_data, conv, decided, freed>>
    ELSE
    LET raw == CHOOSE x \in d : TRUE
        is_valid == IF raw.note # <<>> THEN validate_profile_text(raw.note) ELSE TRUE
        profile == sanitize_profile_data(raw)
        username == profile.username
        existing == get_profile_by_username(profiles, username)
    IN
    IF ~ is_valid
    THEN /\ ev' = Event("new_confirm", u, 0, username, "invalid", {})
         /\ UNCHANGED <<profiles, seq, cache, user_data, conv, decided, freed>>
    ELSE IF ConfirmConflict(existing)
    THEN /\ user_data' = [user_data EXCEPT ![u].new_profile_preview = {}]
         /\ ev' = Event("new_confirm", u, 0, username, "conflict", {})
         /\ UNCHANGED <<profiles, seq, cache, conv, decided, freed>>
    ELSE IF existing # {}
    THEN /\ profiles' = delete_profile(profiles, username)
         /\ ev' = Event("new_confirm", u, 0, username, "crash", {})
         /\ UNCHANGED <<seq, cache, user_data, conv, decided, freed>>
    ELSE /\ seq < MaxId
         /\ profiles' = add_profile(profiles, profile, seq + 1)
         /\ seq' = seq + 1
         /\ cache' = cache_set(cache, seq + 1,
                               [add_profile_row(profile, seq + 1) EXCEPT
                                    !.status = profile.status])
         /\ user_data' = [user_data EXCEPT ![u].new_profile_preview = {}]
         /\ freed' = freed \ {username}
         /\ ev' = Event("new_confirm", u, seq + 1, username, "submitted",
                        fan_out(notified_ids, failing))
         /\ UNCHANGED <<conv, decided>>

\* faulty variant: the cancel answers but keeps the draft
NewProfileCancelCb_keep(u) ==
    /\ ev' = Event("new_cancel", u, 0, DraftName(user_data[u].new_profile_preview),
                   "cancelled", {})
    /\ UNCHANGED <<profiles, seq, cache, user_data, conv, decided, freed>>

\* new_profile_cancel_cb
NewProfileCancelCb(u) ==
    /\ user_data' = [user_data EXCEPT ![u].new_profile_preview = {}]
    /\ ev' = Event("new_cancel", u, 0, DraftName(user_data[u].new_profile_preview),
                   "cancelled", {})
    /\ UNCHANGED <<profiles, seq, cache, conv, decided, freed>>

(***************************************************************************)
(* Edit-profile flow (handlers.py)                                         *)
(***************************************************************************)
\* profile_edit_start_cb; entry point of edit_conv, or the plain handler when
\* edit_conv is already waiting
ProfileEditStartCb(u) ==
    LET existing == get_profile_by_username(profiles, UsernameOf[u])
        approved == \E p \in existing : p.status = "approved"
    IN
    /\ IF approved
       THEN /\ user_data' = [user_data EXCEPT ![u].edit_username = {UsernameOf[u]}]
            /\ conv' = [conv EXCEPT ![u].edit = EP_WAIT_TEXT]
            /\ ev' = Event("profile_edit_start", u, 0, UsernameOf[u], "prompt", {})
       ELSE /\ ev' = Event("profile_edit_start", u, 0, UsernameOf[u], "no_approved", {})
            /\ UNCHANGED <<user_data, conv>>
    /\ UNCHANGED <<profiles, seq, cache, decided, freed>>

\* edit_profile_receive: the text handler of edit_conv in state EP_WAIT_TEXT
\* (new_conv is registered first and wins when it is waiting too)
EditProfileReceive(u, text) ==
    LET un == user_data[u].edit_username
        existing == IF un = {} THEN {}
                    ELSE get_profile_by_username(profiles, CHOOSE x \in un : TRUE)
    IN
    /\ conv[u].new # NP_WAIT_TEXT
    /\ conv[u].edit = EP_WAIT_TEXT
    /\ conv' = [conv EXCEPT ![u].edit = END]
    /\ IF un = {}
       THEN /\ ev' = Event("edit_profile_receive", u, 0, <<>>, "no_session", {})
            /\ UNCHANGED user_data
       ELSE IF existing = {}
       THEN /\ ev' = Event("edit_profile_receive", u, 0, CHOOSE x \in un : TRUE,
                           "not_found", {})
            /\ UNCHANGED user_data
       ELSE /\ user_data' = [user_data EXCEPT ![u].edit_profile_preview =
                                {[(CHOOSE p \in existing : TRUE) EXCEPT !.note = text]}]
            /\ ev' = Event("edit_profile_receive", u, 0, CHOOSE x \in un : TRUE,
                           "preview", {})
    /\ UNCHANGED <<profiles, seq, cache, decided, freed>>

\* edit_profile_confirm_cb
EditProfileConfirmCb(u) ==
    LET pv == user_data[u].edit_profile_preview
        un == user_data[u].edit_username
    IN
    IF pv = {} \/ un = {}
    THEN /\ ev' = Event("edit_confirm", u, 0, <<>>, "no_data", {})
         /\ UNCHANGED <<profiles, seq, cache, user_data, conv, decided, freed>>
    ELSE
    LET profile == CHOOSE x \in pv : TRUE
        username == CHOOSE x \in un : TRUE
        ok == get_profile_by_username(profiles, username) # {}
    IN
    /\ profiles' = update_profile(profiles, username, [note |-> profile.note])
    /\ user_data' = [user_data EXCEPT ![u].edit_profile_preview = {},
                                      ![u].edit_username = {}]
    /\ ev' = IF ok
             THEN Event("edit_confirm", u, 0, username, "updated", {SUPER_ADMIN_ID})
             ELSE Event("edit_confirm", u, 0, username, "update_error", {})
    /\ UNCHANGED <<seq, cache, conv, decided, freed>>

\* edit_profile_cancel_cb
EditProfileCancelCb(u) ==
    /\ user_data' = [user_data EXCEPT ![u].edit_profile_preview = {},
                                      ![u].edit_username = {}]
    /\ ev' = Event("edit_cancel", u, 0, DraftName(user_data[u].edit_profile_preview),
                   "cancelled", {})
    /\ UNCHANGED <<profiles, seq, cache, conv, decided, freed>>

(***************************************************************************)
(* Moderation and deletion (handlers.py)                                   *)
(***************************************************************************)
\* the actions of the review:<id>:<action> payloads
ReviewActions == {"accept", "reject", "delete"}

\* profile.get('reviewed_by_id'): the profiles table has no such column, so the
\* row dict never has the key and the lookup yields None
reviewed_by_id(p) == {}

\* the submitter notification of admin_review_cb: 'if aid:'
submitter_of(p) == p.added_by_id

\* admin_review_cb.  db.update_profile_status_and_review does not exist in db.py
\* (AttributeError before any change); profile_cache.delete does not exist
\* either (AttributeError right after db.delete_profile has committed).
AdminReviewCb(u, pid, action) ==
    LET found == get_profile_by_id(profiles, pid) IN
    IF ~ IsAdmin(u)
    THEN /\ ev' = Event("review_" \o action, u, pid, <<>>, "denied", {})
         /\ UNCHANGED <<profiles, seq, cache, user_data, conv, decided, freed>>
    ELSE IF found = {}
    THEN /\ ev' = Event("review_" \o action, u, pid, <<>>, "not_found", {})
         /\ UNCHANGED <<profiles, seq, cache, user_data, conv, decided, freed>>
    ELSE
    LET profile == CHOOSE p \in found : TRUE IN
    IF reviewed_by_id(profile) # {}
    THEN /\ ev' = Event("review_" \o action, u, pid, profile.username,
                        "already_reviewed", {})
         /\ UNCHANGED <<profiles, seq, cache, user_data, conv, decided, freed>>
    ELSE IF action = "accept"
    THEN /\ ev' = Event("review_accept", u, pid, profile.username, "crash", {})
         /\ UNCHANGED <<profiles, seq, cache, user_data, conv, decided, freed>>
    ELSE IF action = "reject"
    THEN /\ profiles' = delete_profile(profiles, profile.username)
         /\ decided' = decided \cup {pid}
         /\ freed' = IF profile.status = "pending"
                     THEN freed \cup {profile.username} ELSE freed
         /\ ev' = Event("review_reject", u, pid, profile.username, "crash", {})
         /\ UNCHANGED <<seq, cache, user_data, conv>>
    ELSE IF action = "delete"
    THEN /\ profiles' = delete_profile(profiles, profile.username)
         /\ ev' = Event("review_delete", u, pid, profile.username, "crash", {})
         /\ UNCHANGED <<seq, cache, user_data, conv, decided, freed>>
    ELSE /\ ev' = Event("review_other", u, pid, profile.username, "unknown_action", {})
         /\ UNCHANGED <<profiles, seq, cache, user_data, conv, decided, freed>>

\* delete_profile_confirm_cb (delete_confirm:<username>); profile_cache.delete
\* raises AttributeError after a successful db.delete_profile
DeleteProfileConfirmCb(u, username) ==
    LET ok == get_profile_by_username(profiles, username) # {} IN
    /\ profiles' = delete_profile(profiles, username)
    /\ ev' = Event("delete_confirm", u, 0, username,
                   IF ok THEN "crash" ELSE "not_deleted", {})
    /\ UNCHANGED <<seq, cache, user_data, conv, decided, freed>>

(***************************************************************************)
(* Process restart: main() runs db.init_db() again; user_data and the      *)
(* conversation states live in memory only; the cache is reloaded from the *)
(* file that every cache write saved.                                      *)
(***************************************************************************)
Restart ==
    LET s == seed_profiles(profiles, seq, SeedUsernames) IN
    /\ s.seq <= MaxId
    /\ profiles' = s.P
    /\ seq' = s.seq
    /\ user_data' = [u \in Users |-> EmptyUserData]
    /\ conv' = [u \in Users |-> NoConv]
    /\ freed' = {n \in freed : get_profile_by_username(s.P, n) = {}}
    /\ ev' = Event("restart", 0, 0, <<>>, "none", {})
    /\ UNCHANGED <<cache, decided>>

\* one more update is taken from the transport
Tick ==
    /\ updates < MaxUpdates
    /\ updates' = updates + 1

\* the handlers of the profile flows never touch the reports table
ProfileStep == Tick /\ UNCHANGED <<reports, rseq, upd>> /\ UNCHANGED envvars

Next ==
    \/ \E u \in Members : ProfileStep /\ ProfileNewStartCb(u)
    \/ \E u \in Members, t \in Texts : ProfileStep /\ NewProfileReceive(u, t)
    \/ \E u \in Members, t \in Texts : ProfileStep /\ TryAutoProfileSubmit(u, t)
    \/ \E u \in Members : ProfileStep /\ NewProfileConfirmCb(u)
    \/ \E u \in Members : ProfileStep /\ NewProfileCancelCb(u)
    \/ \E u \in Members : ProfileStep /\ ProfileEditStartCb(u)
    \/ \E u \in Members, t \in Texts : ProfileStep /\ EditProfileReceive(u, t)
    \/ \E u \in Members : ProfileStep /\ EditProfileConfirmCb(u)
    \/ \E u \in Members : ProfileStep /\ EditProfileCancelCb(u)
    \/ \E u \in Pressers, pid \in Ids, a \in ReviewActions :
            ProfileStep /\ AdminReviewCb(u, pid, a)
    \/ \E u \in Pressers, n \in Usernames : ProfileStep /\ DeleteProfileConfirmCb(u, n)
    \/ ProfileStep /\ Restart

Spec == Init /\ [][Next]_vars


(***************************************************************************)
(* The store interface called directly (as tests/test_db.py does).  Every  *)
(* db function runs under the module lock, so each call is one step.       *)
(***************************************************************************)
DbUsernames == {U_alice, U_Alice, U_nurkotik}
DbStatuses == {"pending", "approved"}

\* the profile dicts handed to add_profile
DbProfiles ==
    [username : DbUsernames, note : {strip(T_ok)}, added_by : {U_alice, U_seed},
     added_by_id : {{1}}, status : {{}, {"approved"}}]

\* add_profile(profile); the INSERT fails with IntegrityError on a duplicate
\* username and nothing is committed
DbAddProfile(profile) ==
    IF UniqueViolation(profiles, profile.username)
    THEN /\ ev' = Event("add_profile", 0, 0, profile.username, "integrity_error", {})
         /\ UNCHANGED <<profiles, seq>>
    ELSE /\ seq < MaxId
         /\ profiles' = add_profile(profiles, profile, seq + 1)
         /\ seq' = seq + 1
         /\ ev' = Event("add_profile", 0, seq + 1, profile.username, "ok", {})

\* update_profile(username, changes), also with a 'username' key in changes
DbUpdateProfile(username, changes) ==
    LET hit == get_profile_by_username(profiles, username)
        clash == /\ "username" \in DOMAIN changes
                 /\ hit # {}
                 /\ changes.username # username
                 /\ UniqueViolation(profiles, changes.username)
    IN
    IF clash
    THEN /\ ev' = Event("update_profile", 0, 0, username, "integrity_error", {})
         /\ UNCHANGED <<profiles, seq>>
    ELSE /\ profiles' = update_profile(profiles, username, changes)
         /\ ev' = Event("update_profile", 0, 0, username,
                        IF hit # {} THEN "ok" ELSE "no_row", {})
         /\ UNCHANGED seq

\* update_profile_status_by_id(pid, status)
DbUpdateStatus(pid, status) ==
    /\ profiles' = update_profile_status_by_id(profiles, pid, status)
    /\ ev' = Event("update_profile_status_by_id", 0, pid, <<>>,
                   IF get_profile_by_id(profiles, pid) # {} THEN "ok" ELSE "no_row", {})
    /\ UNCHANGED seq

\* delete_profile(username)
DbDeleteProfile(username) ==
    /\ profiles' = delete_profile(profiles, username)
    /\ ev' = Event("delete_profile", 0, 0, username,
                   IF get_profile_by_username(profiles, username) # {}
                   THEN "ok" ELSE "no_row", {})
    /\ UNCHANGED seq

\* init_db(): CREATE TABLE IF NOT EXISTS, then _seed_profiles
DbInitDb ==
    LET s == seed_profiles(profiles, seq, SeedUsernames) IN
    /\ s.seq <= MaxId
    /\ profiles' = s.P
    /\ seq' = s.seq
    /\ ev' = Event("init_db", 0, 0, <<>>, "none", {})

DbChanges ==
    {[note |-> T_short]} \cup {[username |-> n] : n \in DbUsernames}

NextDb ==
    \/ \E profile \in DbProfiles : ProfileStep /\ DbAddProfile(profile)
                                        /\ UNCHANGED <<cache, user_data, conv, decided, freed>>
    \/ \E n \in DbUsernames, ch \in DbChanges :
            ProfileStep /\ DbUpdateProfile(n, ch) /\ UNCHANGED <<cache, user_data, conv, decided, freed>>
    \/ \E pid \in Ids, st \in DbStatuses :
            ProfileStep /\ DbUpdateStatus(pid, st) /\ UNCHANGED <<cache, user_data, conv, decided, freed>>
    \/ \E n \in DbUsernames :
            ProfileStep /\ DbDeleteProfile(n) /\ UNCHANGED <<cache, user_data, conv, decided, freed>>
    \/ ProfileStep /\ DbInitDb /\ UNCHANGED <<cache, user_data, conv, decided, freed>>

SpecDb == Init /\ [][NextDb]_vars

(***************************************************************************)
(* Report, AFK and admin-application flows and the routing of main().      *)
(*                                                                         *)
(* A Cyrillic letter is written as "~" followed by its Latin               *)
(* transliteration ("~R" is the capital of "~r"), one string per           *)
(* character, so that the regular expressions of main() and str.lower()    *)
(* are computed on the characters of the message.                          *)
(***************************************************************************)
\* the menu labels and cancel keywords of main() and keyboards.main_menu
M_AFK == <<"A","F","K">>
M_Report == <<"~R","~e","~p","~o","~r","~t">>
M_AdminApp == <<"~Z","~a","~ya","~v","~k","~a"," ","~n","~a"," ",
                "~a","~d","~m","~i","~n","~a">>
M_Anketa == <<"~A","~n","~k","~e","~t","~a">>
M_Otmena == <<"~O","~t","~m","~e","~n","~a">>
M_otmena == <<"~o","~t","~m","~e","~n","~a">>
M_Cancel == <<"C","a","n","c","e","l">>
M_cancel == <<"c","a","n","c","e","l">>
CancelKeywords == {M_Otmena, M_otmena, M_Cancel, M_cancel}

\* other messages: day counts, a plain answer, a report written in one message
\* ('report chat: spam' in Russian)
M_7 == <<"7">>
M_20 == <<"2","0">>
M_sick == <<"s","i","c","k">>
M_single == <<"~r","~e","~p","~o","~r","~t"," ","~ch","~a","~t",":"," ",
              "~s","~p","~a","~m">>

\* the text messages and the button payloads that users send
FlowTexts == {M_AFK, M_Report, M_AdminApp, M_Anketa, M_Otmena, M_cancel,
              M_7, M_20, M_sick, M_single}
\* the member that walks through the flows: the owner of the seeded profile
FlowMembers == {u \in Members : UsernameOf[u] \in SeedUsernames}
FlowButtons ==
    { <<"profile","new_start">>, <<"profile","edit_start">>,
      <<"report","chat">>, <<"report","cancel">>,
      <<"afk","cancel">>, <<"admin_app","cancel">> }

\* the texts and payloads of the runs in which deliveries fail: the way to each
\* of the four notification loops
NotifyTexts == {M_AFK, M_Report, M_AdminApp, M_7, M_sick, T_ok}
NotifyButtons == { <<"report","chat">>, <<"new","confirm">> }

\* characters that are not \w of a regular expression
NonWord == WS \cup {":", "-", "!", "+", ".", ",", "/"}

\* s[:n]
Take(s, n) == SubSeq(s, 1, IF Len(s) < n THEN Len(s) ELSE n)

\* filters.Regex('^label$'): re.search, where $ also matches before a final newline
regex_exact(label, s) == s = label \/ s = label \o <<"\n">>

\* filters.Regex(r'(?i)\b(report\w*|complaint\w*)') with the Russian stems
\* of main(): a word of the text starts with one of the two stems
regex_report(s) ==
    LET stems == { <<"~r","~e","~p","~o","~r","~t">>, <<"~zh","~a","~l","~o","~b">> }
        t == lower(s)
    IN \E i \in 1..Len(s) : \E stem \in stems :
          /\ i + Len(stem) - 1 <= Len(s)
          /\ SubSeq(t, i, i + Len(stem) - 1) = stem
          /\ (i = 1 \/ s[i - 1] \in NonWord)

\* filters.Regex('^Otmena$|^otmena$|^Cancel$|^cancel$') of the cancel fallbacks
regex_cancel(s) == \E k \in CancelKeywords : regex_exact(k, s)

\* the decimal digits
DigitValue(c) ==
    CASE c = "0" -> 0 [] c = "1" -> 1 [] c = "2" -> 2 [] c = "3" -> 3 [] c = "4" -> 4
      [] c = "5" -> 5 [] c = "6" -> 6 [] c = "7" -> 7 [] c = "8" -> 8 [] c = "9" -> 9
      [] OTHER -> -1

RECURSIVE digits_value(_, _)
digits_value(s, acc) ==
    IF s = <<>> THEN acc ELSE digits_value(Tail(s), acc * 10 + DigitValue(Head(s)))

\* int(s): {n} for an optional sign followed by decimal digits, {} for ValueError
int(s) ==
    LET signed == s # <<>> /\ Head(s) \in {"+", "-"}
        body == IF signed THEN Tail(s) ELSE s
    IN IF body = <<>> \/ \E i \in 1..Len(body) : DigitValue(body[i]) < 0
       THEN {}
       ELSE {IF signed /\ Head(s) = "-" THEN 0 - digits_value(body, 0)
             ELSE digits_value(body, 0)}

\* str(n) for n >= 0
RECURSIVE str(_)
str(n) ==
    LET d == <<"0","1","2","3","4","5","6","7","8","9">>[(n % 10) + 1] IN
    IF n < 10 THEN <<d>> ELSE str(n \div 10) \o <<d>>

\* f"AFK na {days} dnej. Prichina: {reason}" of afk_receive_reason
afk_reason_text(days, reason) ==
    <<"A","F","K"," ","~n","~a"," ">> \o str(days)
      \o <<" ","~d","~n","~e","~j","."," ","~P","~r","~i","~ch","~i","~n","~a",":"," ">>
      \o reason

(***************************************************************************)
(* Routing (main.py).  All handlers are in one group: the application asks *)
(* the handlers in registration order and runs the first one whose         *)
(* check_update accepts the update.  A ConversationHandler of a user with  *)
(* no conversation accepts what an entry point accepts; in a state it      *)
(* accepts what a handler of the state accepts and only then what a        *)
(* fallback accepts.                                                       *)
(***************************************************************************)
\* filters.TEXT & ~filters.COMMAND
TEXT(x) == x.kind = "text" /\ x.data # <<>> /\ Head(x.data) # "/"

\* filters.Regex(...) of a menu label
LABEL(label, x) == x.kind = "text" /\ regex_exact(label, x.data)

\* CallbackQueryHandler(pattern=r'^a:b$') and (pattern=r'^a:')
BUTTON(parts, x) == x.kind = "button" /\ x.data = parts
PREFIX(part, x) == x.kind = "button" /\ Len(x.data) >= 2 /\ x.data[1] = part

\* the handler a list of <<callback, accepts>> pairs offers: the first accepting
RECURSIVE FirstOf(_)
FirstOf(hs) ==
    IF hs = <<>> THEN <<>>
    ELSE IF Head(hs)[2] THEN <<Head(hs)[1]>> ELSE FirstOf(Tail(hs))

\* every accepting handler of a list, in order
RECURSIVE AllOf(_)
AllOf(hs) ==
    IF hs = <<>> THEN <<>>
    ELSE (IF Head(hs)[2] THEN <<Head(hs)[1]>> ELSE <<>>) \o AllOf(Tail(hs))

\* ConversationHandler.check_update for the conversation state st
ConversationHandler(st, entry_points, states, fallbacks) ==
    IF st = END THEN FirstOf(entry_points)
    ELSE IF FirstOf(states[st]) # <<>> THEN FirstOf(states[st])
    ELSE FirstOf(fallbacks)

new_conv(st, x) ==
    ConversationHandler(st,
        << <<"profile_new_start_cb", BUTTON(<<"profile","new_start">>, x)>> >>,
        [s \in {NP_WAIT_TEXT} |->
            << <<"new_profile_receive", TEXT(x)>>,
               <<"new_profile_receive_single", TEXT(x)>> >>],
        << >>)

report_conv(st, x) ==
    ConversationHandler(st,
        << <<"report_start", LABEL(M_Report, x)>>,
           <<"report_start", x.kind = "text" /\ regex_report(x.data)>> >>,
        [s \in {RP_WAIT_REASON} |-> << <<"report_reason_received", TEXT(x)>> >>],
        << >>)

afk_conv(st, x) ==
    ConversationHandler(st,
        << <<"afk_start", LABEL(M_AFK, x)>> >>,
        [s \in {AFK_WAIT_DAYS, AFK_WAIT_REASON} |->
            IF s = AFK_WAIT_DAYS THEN << <<"afk_receive_days", TEXT(x)>> >>
            ELSE << <<"afk_receive_reason", TEXT(x)>> >>],
        << <<"afk_cancel", x.kind = "text" /\ regex_cancel(x.data)>>,
           <<"afk_cancel_inline", BUTTON(<<"afk","cancel">>, x)>> >>)

admin_app_conv(st, x) ==
    ConversationHandler(st,
        << <<"admin_app_start", LABEL(M_AdminApp, x)>> >>,
        [s \in {AA_WAIT_TEXT} |-> << <<"admin_app_receive", TEXT(x)>> >>],
        << <<"admin_app_cancel", x.kind = "text" /\ regex_cancel(x.data)>>,
           <<"admin_app_cancel_inline", BUTTON(<<"admin_app","cancel">>, x)>> >>)

edit_conv(st, x) ==
    ConversationHandler(st,
        << <<"profile_edit_start_cb", BUTTON(<<"profile","edit_start">>, x)>> >>,
        [s \in {EP_WAIT_TEXT} |-> << <<"edit_profile_receive", TEXT(x)>> >>],
        << >>)

\* the handlers registered after the conversations, in registration order (of
\* the menu and admin-panel handlers those that accept a message of FlowTexts or
\* a payload of FlowButtons, of the review and of the report-clearing buttons)
plain_handlers(x) ==
    << <<"profile_menu_entry", LABEL(M_Anketa, x)>>,
       <<"afk_start", LABEL(M_AFK, x)>>,
       <<"admin_app_start", LABEL(M_AdminApp, x)>>,
       <<"delete_profile_confirm_cb", PREFIX("delete_confirm", x)>>,
       <<"profile_new_start_cb", BUTTON(<<"profile","new_start">>, x)>>,
       <<"profile_edit_start_cb", BUTTON(<<"profile","edit_start">>, x)>>,
       <<"admin_clear_reports", BUTTON(<<"admin","clear_reports">>, x)>>,
       <<"admin_review_cb", PREFIX("review", x)>>,
       <<"report_select_cb", PREFIX("report", x)>>,
       <<"new_profile_confirm_cb", BUTTON(<<"new","confirm">>, x)>>,
       <<"new_profile_cancel_cb", BUTTON(<<"new","cancel">>, x)>>,
       <<"edit_profile_confirm_cb", BUTTON(<<"edit","confirm">>, x)>>,
       <<"edit_profile_cancel_cb", BUTTON(<<"edit","cancel">>, x)>>,
       <<"try_auto_profile_submit", TEXT(x)>>,
       <<"admin_receive_profile_edit", TEXT(x)>>,
       <<"admin_receive_edit", TEXT(x)>> >>

\* the callbacks of the registered handlers that accept update x of a user whose
\* conversations are in the states c, in registration order
Matching(c, x) ==
    new_conv(c.new, x) \o report_conv(c.report, x) \o afk_conv(c.afk, x)
        \o admin_app_conv(c.admin_app, x) \o edit_conv(c.edit, x)
        \o AllOf(plain_handlers(x))

\* a text message and a button press as updates
Msg(t) == [kind |-> "text", data |-> t]
Btn(b) == [kind |-> "button", data |-> b]

\* the rows init_db seeds into an empty database
SeedRows == seed_profiles({}, 0, SeedUsernames).P

\* the payloads review:<id>:<action> of keyboards.admin_review_kb
ReviewButtons == {<<"review", str(p.id), a>> : p \in SeedRows, a \in ReviewActions}

ClearReportsButton == <<"admin", "clear_reports">>

\* the updates users send, and the states the conversations of a user can be in
Updates ==
    {Msg(t) : t \in FlowTexts \cup NotifyTexts}
        \cup {Btn(b) : b \in FlowButtons \cup ReviewButtons \cup {ClearReportsButton}
                                  \cup NotifyButtons}
ConvStates ==
    [new : {END, NP_WAIT_TEXT}, report : {END, RP_WAIT_REASON},
     afk : {END, AFK_WAIT_DAYS, AFK_WAIT_REASON}, admin_app : {END, AA_WAIT_TEXT},
     edit : {END, EP_WAIT_TEXT}]

\* the routing relation, computed once: <<c, x, h>> when the application runs h
\* for update x in the conversation states c ("none" when nothing accepts x)
Dispatching ==
    {<<c, x, IF Matching(c, x) = <<>> THEN "none" ELSE Head(Matching(c, x))>> :
        c \in ConvStates, x \in Updates}

\* <<c, x, h>> for every handler h that accepts x in the conversation states c
Accepting ==
    UNION {{<<c, x, Matching(c, x)[i]>> : i \in 1..Len(Matching(c, x))} :
        c \in ConvStates, x \in Updates}

\* faulty variant: any accepting handler may run
Route_any(h, u, x) ==
    /\ updates < MaxFlowUpdates
    /\ updates' = updates + 1
    /\ <<conv[u], x, h>> \in Accepting
    /\ upd' = Update(x.kind, u, x.data, h)
    /\ UNCHANGED envvars

\* Application.process_update: the update x of user u goes to handler h, the
\* first accepting one; to none when no handler accepts it
Route(h, u, x) ==
    /\ updates < MaxFlowUpdates
    /\ updates' = updates + 1
    /\ <<conv[u], x, h>> \in Dispatching
    /\ upd' = Update(x.kind, u, x.data, h)
    /\ UNCHANGED envvars

\* the same for the handlers of the report flow, whose history is kept in 'flow'
RouteReport(h, u, x) ==
    /\ updates < MaxFlowUpdates
    /\ updates' = updates + 1
    /\ <<conv[u], x, h>> \in Dispatching
    /\ upd' = Update(x.kind, u, x.data, h)
    /\ UNCHANGED flowenv

(***************************************************************************)
(* Reports table (db.py) and the handlers of the report, AFK and           *)
(* admin-application flows (handlers.py)                                   *)
(***************************************************************************)
\* db.add_report: the row stored under the next id
add_report(R, r, rid) ==
    R \cup {[id |-> rid, reporter_id |-> r.reporter_id, category |-> r.category,
             reason |-> r.reason]}

\* db.clear_reports
clear_reports(R) == {}

\* the variables of the profile store, which the flows below only read
storevars == <<profiles, seq, cache, decided, freed>>

\* 'profile = db.get_profile_by_username(user.username); if not profile'
has_profile(u) == get_profile_by_username(profiles, UsernameOf[u]) # {}

\* report_start for a sender whose account has the username name (<<>>: it has
\* none).  'if user and user.username:' guards the lookup and the refusal, so a
\* sender without a username goes on to the categories.
ReportStartAs(u, name) ==
    LET refused == name # <<>> /\ get_profile_by_username(profiles, name) = {} IN
    /\ conv' = [conv EXCEPT ![u].report = IF refused THEN END ELSE RP_WAIT_REASON]
    /\ ev' = Event("report_start", u, 0, <<>>,
                   IF refused THEN "no_profile" ELSE "categories", {})
    /\ UNCHANGED <<user_data, reports, rseq>>
    /\ UNCHANGED storevars

\* report_start: entry point of report_conv
ReportStart(u) == ReportStartAs(u, UsernameOf[u])

\* report_select_cb: registered as a plain CallbackQueryHandler only, so the
\* state it returns is dropped and report_conv keeps its state
ReportSelectCb(u, data) ==
    LET cat == data[2] IN
    /\ IF cat = "cancel" \/ cat = "menu"
       THEN /\ ev' = Event("report_select", u, 0, <<>>, "cancelled", {})
            /\ UNCHANGED user_data
       ELSE /\ user_data' = [user_data EXCEPT ![u].report_category = {cat}]
            /\ ev' = Event("report_select", u, 0, <<>>, "ask_reason", {})
    /\ UNCHANGED <<conv, reports, rseq>>
    /\ UNCHANGED storevars

\* report_reason_received: the text handler of report_conv in RP_WAIT_REASON
ReportReasonReceived(u, text) ==
    LET cat == user_data[u].report_category IN
    /\ conv' = [conv EXCEPT ![u].report = END]
    /\ IF cat = {}
       THEN /\ ev' = Event("report_reason_received", u, 0, <<>>, "no_category", {})
            /\ UNCHANGED <<reports, rseq>>
       ELSE /\ rseq < MaxReports
            /\ reports' = add_report(reports,
                              [reporter_id |-> u, category |-> CHOOSE c \in cat : TRUE,
                               reason |-> Take(text, 400)], rseq + 1)
            /\ rseq' = rseq + 1
            /\ ev' = Event("report_reason_received", u, rseq + 1, <<>>, "accepted",
                           fan_out(notified_ids, failing))
    /\ UNCHANGED user_data
    /\ UNCHANGED storevars

\* afk_start: entry point of afk_conv
AfkStart(u) ==
    /\ conv' = [conv EXCEPT ![u].afk = IF has_profile(u) THEN AFK_WAIT_DAYS ELSE END]
    /\ ev' = Event("afk_start", u, 0, <<>>,
                   IF has_profile(u) THEN "prompt_days" ELSE "no_profile", {})
    /\ UNCHANGED <<user_data, reports, rseq>>
    /\ UNCHANGED storevars

\* faulty variant: the range of the day count is not checked
AfkReceiveDays_anyint(u, text) ==
    LET parsed == int(strip(text)) IN
    /\ IF parsed = {}
       THEN /\ ev' = Event("afk_receive_days", u, 0, <<>>, "not_a_number", {})
            /\ conv' = [conv EXCEPT ![u].afk = AFK_WAIT_DAYS]
            /\ UNCHANGED user_data
       ELSE LET days == CHOOSE n \in parsed : TRUE IN
            IF FALSE
            THEN /\ ev' = Event("afk_receive_days", u, 0, <<>>, "out_of_range", {})
                 /\ conv' = [conv EXCEPT ![u].afk = AFK_WAIT_DAYS]
                 /\ UNCHANGED user_data
            ELSE /\ user_data' = [user_data EXCEPT ![u].afk_days = {days}]
                 /\ conv' = [conv EXCEPT ![u].afk = AFK_WAIT_REASON]
                 /\ ev' = Event("afk_receive_days", u, 0, <<>>, "prompt_reason", {})
    /\ UNCHANGED <<reports, rseq>>
    /\ UNCHANGED storevars

\* afk_receive_days: 'days = int(text.strip())', ValueError re-prompts
AfkReceiveDays(u, text) ==
    LET parsed == int(strip(text)) IN
    /\ IF parsed = {}
       THEN /\ ev' = Event("afk_receive_days", u, 0, <<>>, "not_a_number", {})
            /\ conv' = [conv EXCEPT ![u].afk = AFK_WAIT_DAYS]
            /\ UNCHANGED user_data
       ELSE LET days == CHOOSE n \in parsed : TRUE IN
            IF days < 1 \/ days > 14
            THEN /\ ev' = Event("afk_receive_days", u, 0, <<>>, "out_of_range", {})
                 /\ conv' = [conv EXCEPT ![u].afk = AFK_WAIT_DAYS]
                 /\ UNCHANGED user_data
            ELSE /\ user_data' = [user_data EXCEPT ![u].afk_days = {days}]
                 /\ conv' = [conv EXCEPT ![u].afk = AFK_WAIT_REASON]
                 /\ ev' = Event("afk_receive_days", u, 0, <<>>, "prompt_reason", {})
    /\ UNCHANGED <<reports, rseq>>
    /\ UNCHANGED storevars

\* faulty variant: the day count of the session is not read
afk_days_of_default(d) == 1

\* context.user_data.get('afk_days', 1)
afk_days_of(d) == IF d.afk_days = {} THEN 1 ELSE CHOOSE n \in d.afk_days : TRUE

\* afk_receive_reason
AfkReceiveReason(u, text) ==
    LET stripped == strip(text)
        days == afk_days_of(user_data[u])
        reason == Take(stripped, 500)
    IN
    IF stripped = <<>>
    THEN /\ ev' = Event("afk_receive_reason", u, 0, <<>>, "no_reason", {})
         /\ conv' = [conv EXCEPT ![u].afk = AFK_WAIT_REASON]
         /\ UNCHANGED <<user_data, reports, rseq>>
         /\ UNCHANGED storevars
    ELSE /\ rseq < MaxReports
         /\ reports' = add_report(reports,
                           [reporter_id |-> u, category |-> "afk_request",
                            reason |-> afk_reason_text(days, reason)], rseq + 1)
         /\ rseq' = rseq + 1
         /\ user_data' = [user_data EXCEPT ![u].afk_days = {}]
         /\ conv' = [conv EXCEPT ![u].afk = END]
         /\ ev' = Event("afk_receive_reason", u, rseq + 1, <<>>, "submitted",
                        fan_out(notified_ids, failing))
         /\ UNCHANGED storevars

\* afk_cancel: the text fallback of afk_conv
AfkCancel(u) ==
    /\ user_data' = [user_data EXCEPT ![u].afk_days = {}]
    /\ conv' = [conv EXCEPT ![u].afk = END]
    /\ ev' = Event("afk_cancel", u, 0, <<>>, "cancelled", {})
    /\ UNCHANGED <<reports, rseq>>
    /\ UNCHANGED storevars

\* afk_cancel_inline: the button fallback of afk_conv
AfkCancelInline(u) ==
    /\ user_data' = [user_data EXCEPT ![u].afk_days = {}]
    /\ conv' = [conv EXCEPT ![u].afk = END]
    /\ ev' = Event("afk_cancel_inline", u, 0, <<>>, "cancelled", {})
    /\ UNCHANGED <<reports, rseq>>
    /\ UNCHANGED storevars

\* admin_app_start: entry point of admin_app_conv
AdminAppStart(u) ==
    /\ conv' = [conv EXCEPT ![u].admin_app =
                    IF has_profile(u) THEN AA_WAIT_TEXT ELSE END]
    /\ ev' = Event("admin_app_start", u, 0, <<>>,
                   IF has_profile(u) THEN "prompt" ELSE "no_profile", {})
    /\ UNCHANGED <<user_data, reports, rseq>>
    /\ UNCHANGED storevars

\* admin_app_receive
AdminAppReceive(u, text) ==
    LET app_text == strip(text) IN
    IF app_text = <<>>
    THEN /\ ev' = Event("admin_app_receive", u, 0, <<>>, "no_text", {})
         /\ conv' = [conv EXCEPT ![u].admin_app = AA_WAIT_TEXT]
         /\ UNCHANGED <<user_data, reports, rseq>>
         /\ UNCHANGED storevars
    ELSE /\ rseq < MaxReports
         /\ reports' = add_report(reports,
                           [reporter_id |-> u, category |-> "admin_application",
                            reason |-> Take(app_text, 1000)], rseq + 1)
         /\ rseq' = rseq + 1
         /\ conv' = [conv EXCEPT ![u].admin_app = END]
         /\ ev' = Event("admin_app_receive", u, rseq + 1, <<>>, "submitted",
                        fan_out(notified_ids, failing))
         /\ UNCHANGED user_data
         /\ UNCHANGED storevars

\* admin_app_cancel: the text fallback of admin_app_conv
AdminAppCancel(u) ==
    /\ conv' = [conv EXCEPT ![u].admin_app = END]
    /\ ev' = Event("admin_app_cancel", u, 0, <<>>, "cancelled", {})
    /\ UNCHANGED <<user_data, reports, rseq>>
    /\ UNCHANGED storevars

\* admin_app_cancel_inline: the button fallback of admin_app_conv
AdminAppCancelInline(u) ==
    /\ conv' = [conv EXCEPT ![u].admin_app = END]
    /\ ev' = Event("admin_app_cancel_inline", u, 0, <<>>, "cancelled", {})
    /\ UNCHANGED <<user_data, reports, rseq>>
    /\ UNCHANGED storevars

\* profile_menu_entry: shows the profile menu, changes nothing
ProfileMenuEntry(u) ==
    /\ ev' = Event("profile_menu_entry", u, 0, UsernameOf[u],
                   IF \E p \in get_profile_by_username(profiles, UsernameOf[u]) :
                          p.status = "approved"
                   THEN "edit_menu" ELSE "create_menu", {})
    /\ UNCHANGED <<user_data, conv, reports, rseq>>
    /\ UNCHANGED storevars

\* admin_clear_reports
AdminClearReports(u) ==
    /\ IF ~ IsAdmin(u)
       THEN /\ ev' = Event("admin_clear_reports", u, 0, <<>>, "denied", {})
            /\ UNCHANGED reports
       ELSE /\ reports' = clear_reports(reports)
            /\ ev' = Event("admin_clear_reports", u, 0, <<>>,
                           IF reports # {} THEN "cleared" ELSE "nothing_to_clear", {})
    /\ UNCHANGED <<user_data, conv, rseq>>
    /\ UNCHANGED storevars

\* an update that no handler accepts is dropped
Unhandled(u) ==
    /\ ev' = Event("none", u, 0, <<>>, "none", {})
    /\ UNCHANGED <<user_data, conv, reports, rseq>>
    /\ UNCHANGED storevars

(***************************************************************************)
(* The bot as the users of the flows see it: every update is routed by     *)
(* Route to one handler of main().  afk_cancel and admin_app_cancel are    *)
(* registered, but Matching never puts them first (the text handler of the *)
(* state accepts every text before a fallback is asked), and the second    *)
(* '^AFK$' and admin-application menu handlers are shadowed the same way.  *)
(***************************************************************************)
\* 'pid = int(parts[1])' of admin_review_cb
review_pid(data) == CHOOSE n \in int(data[2]) : TRUE

NextFlow ==
    \/ \E u \in FlowMembers, t \in FlowTexts :
          /\ Route("new_profile_receive", u, Msg(t))
          /\ NewProfileReceive(u, t) /\ UNCHANGED <<reports, rseq>>
    \/ \E u \in FlowMembers, t \in FlowTexts :
          Route("report_start", u, Msg(t)) /\ ReportStart(u)
    \/ \E u \in FlowMembers, t \in FlowTexts :
          Route("report_reason_received", u, Msg(t)) /\ ReportReasonReceived(u, t)
    \/ \E u \in FlowMembers, t \in FlowTexts :
          Route("afk_start", u, Msg(t)) /\ AfkStart(u)
    \/ \E u \in FlowMembers, t \in FlowTexts :
          Route("afk_receive_days", u, Msg(t)) /\ AfkReceiveDays(u, t)
    \/ \E u \in FlowMembers, t \in FlowTexts :
          Route("afk_receive_reason", u, Msg(t)) /\ AfkReceiveReason(u, t)
    \/ \E u \in FlowMembers, t \in FlowTexts :
          Route("admin_app_start", u, Msg(t)) /\ AdminAppStart(u)
    \/ \E u \in FlowMembers, t \in FlowTexts :
          Route("admin_app_receive", u, Msg(t)) /\ AdminAppReceive(u, t)
    \/ \E u \in FlowMembers, t \in FlowTexts :
          /\ Route("edit_profile_receive", u, Msg(t))
          /\ EditProfileReceive(u, t) /\ UNCHANGED <<reports, rseq>>
    \/ \E u \in FlowMembers, t \in FlowTexts :
          Route("profile_menu_entry", u, Msg(t)) /\ ProfileMenuEntry(u)
    \/ \E u \in FlowMembers, t \in FlowTexts :
          /\ Route("try_auto_profile_submit", u, Msg(t))
          /\ TryAutoProfileSubmit(u, t) /\ UNCHANGED <<reports, rseq>>
    \/ \E u \in FlowMembers, b \in FlowButtons :
          /\ Route("profile_new_start_cb", u, Btn(b))
          /\ ProfileNewStartCb(u) /\ UNCHANGED <<reports, rseq>>
    \/ \E u \in FlowMembers, b \in FlowButtons :
          /\ Route("profile_edit_start_cb", u, Btn(b))
          /\ ProfileEditStartCb(u) /\ UNCHANGED <<reports, rseq>>
    \/ \E u \in FlowMembers, b \in FlowButtons :
          Route("report_select_cb", u, Btn(b)) /\ ReportSelectCb(u, b)
    \/ \E u \in FlowMembers, b \in FlowButtons :
          Route("afk_cancel_inline", u, Btn(b)) /\ AfkCancelInline(u)
    \/ \E u \in FlowMembers, b \in FlowButtons :
          Route("admin_app_cancel_inline", u, Btn(b)) /\ AdminAppCancelInline(u)
    \/ \E u \in FlowMembers, b \in FlowButtons :
          Route("none", u, Btn(b)) /\ Unhandled(u)
    \/ \E u \in Pressers :
          Route("admin_clear_reports", u, Btn(ClearReportsButton)) /\ AdminClearReports(u)
    \/ \E u \in Pressers, b \in ReviewButtons :
          /\ Route("admin_review_cb", u, Btn(b))
          /\ AdminReviewCb(u, review_pid(b), b[3]) /\ UNCHANGED <<reports, rseq>>

SpecFlow == Init /\ [][NextFlow]_vars

(***************************************************************************)
(* The privilege-checked handlers (handlers.py): the admin panel and its   *)
(* views, the delete prompt, the CSV export and the profile card.  Each    *)
(* one compares the id of the caller with config.SUPER_ADMIN_ID and        *)
(* config.ADMIN_IDS in its own way, as written below.                      *)
(***************************************************************************)
\* a handler that only answers: ev is the answer, nothing else changes
Answer(op, u, uname, resp) ==
    /\ ev' = Event(op, u, 0, uname, resp, {})
    /\ UNCHANGED <<profiles, seq, cache, user_data, conv, decided, freed, reports, rseq>>

\* keyboards.profile_actions_kb: the buttons under a profile card
profile_actions_kb(is_admin, user_id, profile_owner_id) ==
    LET can_edit == is_admin \/ (user_id # 0 /\ profile_owner_id = {user_id}) IN
    IF is_admin THEN "card_edit_delete"
    ELSE IF can_edit THEN "card_edit" ELSE "card"

\* view_profile_cb: 'is_admin = (q.from_user.id in config.ADMIN_IDS)'
ViewProfileCb(u, username) ==
    LET found == get_profile_by_username(profiles, username) IN
    IF found = {} THEN Answer("view_profile", u, username, "not_found")
    ELSE /\ ev' = Showing(Event("view_profile", u, 0, username,
                                profile_actions_kb(u \in ADMIN_IDS, u,
                                    (CHOOSE p \in found : TRUE).added_by_id), {}),
                          found)
         /\ UNCHANGED <<profiles, seq, cache, user_data, conv, decided, freed, reports,
                        rseq>>

\* delete_profile_cb: 'if q.from_user.id not in config.ADMIN_IDS'
DeleteProfileCb(u, username) ==
    IF u \notin ADMIN_IDS THEN Answer("delete_profile", u, username, "denied")
    ELSE Answer("delete_profile", u, username, "confirm_prompt")

\* export_csv_cmd: 'if user.id not in config.ADMIN_IDS'
ExportCsvCmd(u) ==
    IF u \notin ADMIN_IDS THEN Answer("export_csv", u, <<>>, "denied")
    ELSE Answer("export_csv", u, <<>>, "document")

\* admin_panel_entry
AdminPanelEntry(u) ==
    IF ~ IsAdmin(u) THEN Answer("admin_panel_entry", u, <<>>, "denied")
    ELSE Answer("admin_panel_entry", u, <<>>, "panel")

\* admin_reports_view
AdminReportsView(u) ==
    IF ~ IsAdmin(u) THEN Answer("admin_reports_view", u, <<>>, "denied")
    ELSE Answer("admin_reports_view", u, <<>>,
                IF reports = {} THEN "no_reports" ELSE "reports")

\* admin_new_profiles_view: the pending rows that were not seeded
AdminNewProfilesView(u) ==
    IF ~ IsAdmin(u) THEN Answer("admin_new_profiles_view", u, <<>>, "denied")
    ELSE Answer("admin_new_profiles_view", u, <<>>,
                IF {p \in get_profiles_by_status(profiles, "pending") :
                       p.added_by # <<>> /\ p.added_by # U_seed} = {}
                THEN "no_profiles" ELSE "previews")

\* admin_manage_profiles
AdminManageProfiles(u) ==
    IF ~ IsAdmin(u) THEN Answer("admin_manage_profiles", u, <<>>, "denied")
    ELSE Answer("admin_manage_profiles", u, <<>>,
                IF get_profiles_by_status(profiles, "approved") = {}
                THEN "no_profiles" ELSE "list")

\* admin_profile_action (admin:profile:<username>)
AdminProfileAction(u, username) ==
    IF ~ IsAdmin(u) THEN Answer("admin_profile_action", u, username, "denied")
    ELSE IF get_profile_by_username(profiles, username) = {}
    THEN Answer("admin_profile_action", u, username, "not_found")
    ELSE Answer("admin_profile_action", u, username, "actions")

\* admin_edit_profile_start (admin:edit:<username>): opens the admin edit session
AdminEditProfileStart(u, username) ==
    LET found == get_profile_by_username(profiles, username) IN
    IF ~ IsAdmin(u) THEN Answer("admin_edit_profile_start", u, username, "denied")
    ELSE IF found = {}
    THEN Answer("admin_edit_profile_start", u, username, "not_found")
    ELSE /\ user_data' = [user_data EXCEPT ![u].admin_edit_username = {username},
                                           ![u].admin_edit_profile = found]
         /\ ev' = Event("admin_edit_profile_start", u, 0, username, "edit_prompt", {})
         /\ UNCHANGED <<profiles, seq, cache, conv, decided, freed, reports, rseq>>

\* admin_delete_profile (admin:delete:<username>)
AdminDeleteProfile(u, username) ==
    IF ~ IsAdmin(u) THEN Answer("admin_delete_profile", u, username, "denied")
    ELSE IF get_profile_by_username(profiles, username) = {}
    THEN Answer("admin_delete_profile", u, username, "not_found")
    ELSE Answer("admin_delete_profile", u, username, "confirm_prompt")

\* admin_afk_requests
AdminAfkRequests(u) ==
    IF ~ IsAdmin(u) THEN Answer("admin_afk_requests", u, <<>>, "denied")
    ELSE Answer("admin_afk_requests", u, <<>>,
                IF {r \in reports : r.category = "afk_request"} = {}
                THEN "no_requests" ELSE "requests")

\* admin_admin_applications
AdminAdminApplications(u) ==
    IF ~ IsAdmin(u) THEN Answer("admin_admin_applications", u, <<>>, "denied")
    ELSE Answer("admin_admin_applications", u, <<>>,
                IF {r \in reports : r.category = "admin_application"} = {}
                THEN "no_applications" ELSE "applications")

\* one more update is taken from the transport by a privilege-checked handler
AdminStep == Tick /\ UNCHANGED upd /\ UNCHANGED envvars

\* The privilege-checked handlers as the users reach them: each is registered
\* in main() under its own command, label or callback pattern.
\* admin_receive_profile_edit and admin_receive_edit are registered after
\* try_auto_profile_submit under the same filter and edit_profile_cb is not
\* registered at all, so no update runs them.
NextAdmin ==
    \/ \E u \in Pressers, n \in Usernames : AdminStep /\ ViewProfileCb(u, n)
    \/ \E u \in Pressers, n \in Usernames : AdminStep /\ DeleteProfileCb(u, n)
    \/ \E u \in Pressers : AdminStep /\ ExportCsvCmd(u)
    \/ \E u \in Pressers : AdminStep /\ AdminPanelEntry(u)
    \/ \E u \in Pressers : AdminStep /\ AdminReportsView(u)
    \/ \E u \in Pressers : AdminStep /\ AdminNewProfilesView(u)
    \/ \E u \in Pressers : AdminStep /\ AdminManageProfiles(u)
    \/ \E u \in Pressers, n \in Usernames : AdminStep /\ AdminProfileAction(u, n)
    \/ \E u \in Pressers, n \in Usernames : AdminStep /\ AdminEditProfileStart(u, n)
    \/ \E u \in Pressers, n \in Usernames : AdminStep /\ AdminDeleteProfile(u, n)
    \/ \E u \in Pressers : AdminStep /\ AdminAfkRequests(u)
    \/ \E u \in Pressers : AdminStep /\ AdminAdminApplications(u)
    \/ \E u \in Pressers :
          AdminStep /\ AdminClearReports(u)
    \/ \E u \in Pressers, pid \in Ids, a \in ReviewActions :
          AdminStep /\ AdminReviewCb(u, pid, a) /\ UNCHANGED <<reports, rseq>>
    \/ \E u \in Pressers, n \in Usernames :
          AdminStep /\ DeleteProfileConfirmCb(u, n) /\ UNCHANGED <<reports, rseq>>

SpecAdmin == Init /\ [][NextAdmin]_vars

(***************************************************************************)
(* Notifications under delivery failures.  A chat id in 'failing' cannot   *)
(* be delivered to (the recipient has blocked the bot or never opened the  *)
(* chat): every send_message to it raises, through all attempts of         *)
(* retry_telegram_request.  The store calls and the answers to the acting  *)
(* user precede the loop over the recipients.                              *)
(***************************************************************************)
\* the set of unreachable recipients changes
Outage ==
    /\ \E fails \in SUBSET notified_ids : fails # failing /\ failing' = fails
    /\ UNCHANGED <<profiles, seq, cache, user_data, conv, ev, decided, freed, updates,
                   reports, rseq, upd, retry, timestamps, now, cache_file, history,
                   limiter, verdicts, filed, flow>>

NextNotify ==
    \/ Outage
    \/ \E u \in Members, t \in NotifyTexts :
          /\ Route("try_auto_profile_submit", u, Msg(t))
          /\ TryAutoProfileSubmit(u, t) /\ UNCHANGED <<reports, rseq>>
    \/ \E u \in Members, b \in NotifyButtons :
          /\ Route("new_profile_confirm_cb", u, Btn(b))
          /\ NewProfileConfirmCb(u) /\ UNCHANGED <<reports, rseq>>
    \/ \E u \in Members, t \in NotifyTexts :
          Route("report_start", u, Msg(t)) /\ ReportStart(u)
    \/ \E u \in Members, b \in NotifyButtons :
          Route("report_select_cb", u, Btn(b)) /\ ReportSelectCb(u, b)
    \/ \E u \in Members, t \in NotifyTexts :
          Route("report_reason_received", u, Msg(t)) /\ ReportReasonReceived(u, t)
    \/ \E u \in Members, t \in NotifyTexts :
          Route("afk_start", u, Msg(t)) /\ AfkStart(u)
    \/ \E u \in Members, t \in NotifyTexts :
          Route("afk_receive_days", u, Msg(t)) /\ AfkReceiveDays(u, t)
    \/ \E u \in Members, t \in NotifyTexts :
          Route("afk_receive_reason", u, Msg(t)) /\ AfkReceiveReason(u, t)
    \/ \E u \in Members, t \in NotifyTexts :
          Route("admin_app_start", u, Msg(t)) /\ AdminAppStart(u)
    \/ \E u \in Members, t \in NotifyTexts :
          Route("admin_app_receive", u, Msg(t)) /\ AdminAppReceive(u, t)

SpecNotify == Init /\ [][NextNotify]_vars

(***************************************************************************)
(* Retry of transport calls (rate_limiter.retry_telegram_request).  The    *)
(* coroutine is followed from await to await: one step per call of func    *)
(* and one per asyncio.sleep.  'retry' holds its locals, the time 'clock'  *)
(* since it was called, and 'log': for every call of func the time it was  *)
(* made, how it ended and the wait that was asked for after it.            *)
(***************************************************************************)
MAX_RETRIES_TELEGRAM == 3
RETRY_BACKOFF_FACTOR == 2

\* how a call of func can end: it returns, or it raises RetryAfter (with its
\* retry_after seconds), another TelegramError, or another Exception
CallResults ==
    {[type |-> "return", retry_after |-> 0]}
        \cup {[type |-> "RetryAfter", retry_after |-> n] : n \in 1..MaxRetryAfter}
        \cup {[type |-> t, retry_after |-> 0] : t \in {"TelegramError", "Exception"}}

\* the max_retries and backoff_factor arguments of the callers: None or a number
MaxRetriesArgs == {{}, {1}, {2}}
BackoffArgs == {{}, {3}}

\* the exception object raised by the call of func in attempt k
Error(type, k) == [type |-> type, attempt |-> k]

\* TelegramError('Max retries exceeded')
MaxRetriesExceeded == [type |-> "TelegramError", attempt |-> -1]

\* backoff_factor ** attempt
RECURSIVE pow(_, _)
pow(b, e) == IF e = 0 THEN 1 ELSE b * pow(b, e - 1)

\* 'arg or default': None and 0 give the default
or_default(arg, default) ==
    IF arg = {} \/ arg = {0} THEN default ELSE CHOOSE x \in arg : TRUE

\* faulty variant: the loop makes one attempt more
retry_range_more(attempt, max_retries) == attempt <= max_retries

\* 'for attempt in range(max_retries)': attempt is still in the range
retry_range(attempt, max_retries) == attempt < max_retries

\* faulty variant: the wait falls short of the signalled seconds
retry_after_wait_short(retry_after) == retry_after - 1

\* 'wait_time = e.retry_after + 1'
retry_after_wait(retry_after) == retry_after + 1

\* the end of a loop body: the next attempt, or after the last one
\* 'raise last_error or TelegramError(...)'
loop_next(r) ==
    IF retry_range(r.attempt + 1, r.max_retries)
    THEN [r EXCEPT !.attempt = @ + 1, !.pc = "attempt", !.wait_time = 0]
    ELSE [r EXCEPT !.pc = "done", !.wait_time = 0,
                   !.outcome = [kind |-> "raise",
                                error |-> IF r.last_error # {} THEN r.last_error
                                          ELSE {MaxRetriesExceeded}]]

\* everything but the retry coroutine and the count of requests
retryrest ==
    <<profiles, seq, cache, user_data, conv, ev, decided, freed, reports, rseq, upd,
      failing, timestamps, now, cache_file, history, limiter, verdicts, filed, flow>>

\* retry_telegram_request(func, max_retries=..., backoff_factor=...) is called
RetryTelegramRequest(max_retries, backoff_factor) ==
    /\ retry.pc \in {"idle", "done"}
    /\ updates < MaxRequests
    /\ updates' = updates + 1
    /\ LET m == or_default(max_retries, MAX_RETRIES_TELEGRAM) IN
       retry' = [pc |-> IF retry_range(0, m) THEN "attempt" ELSE "done",
                 max_retries |-> m,
                 backoff_factor |-> or_default(backoff_factor, RETRY_BACKOFF_FACTOR),
                 attempt |-> 0, last_error |-> {}, wait_time |-> 0, clock |-> 0,
                 log |-> <<>>,
                 outcome |-> IF retry_range(0, m) THEN [kind |-> "none", error |-> {}]
                             ELSE [kind |-> "raise", error |-> {MaxRetriesExceeded}]]
    /\ UNCHANGED retryrest

\* 'return await func(*args, **kwargs)' and the except clause that takes over
RetryAttempt(res) ==
    /\ retry.pc = "attempt"
    /\ LET k == retry.attempt
           logged(w) == Append(retry.log, [at |-> retry.clock, result |-> res, wait |-> w])
       IN retry' =
            IF res.type = "return"
            THEN [retry EXCEPT !.pc = "done", !.log = logged(0),
                               !.outcome = [kind |-> "return", error |-> {}]]
            ELSE IF res.type = "RetryAfter"
            THEN [retry EXCEPT !.pc = "sleep",
                               !.wait_time = retry_after_wait(res.retry_after),
                               !.log = logged(retry_after_wait(res.retry_after))]
            ELSE IF k < retry.max_retries - 1
            THEN [retry EXCEPT !.pc = "sleep",
                               !.last_error = {Error(res.type, k)},
                               !.wait_time = pow(retry.backoff_factor, k),
                               !.log = logged(pow(retry.backoff_factor, k))]
            ELSE loop_next([retry EXCEPT !.last_error = {Error(res.type, k)},
                                         !.log = logged(0)])
    /\ UNCHANGED updates
    /\ UNCHANGED retryrest

\* 'await asyncio.sleep(wait_time)': the coroutine resumes after wait_time
\* seconds or later (late by extra)
RetrySleep(extra) ==
    /\ retry.pc = "sleep"
    /\ retry' = loop_next([retry EXCEPT !.clock = @ + retry.wait_time + extra])
    /\ UNCHANGED updates
    /\ UNCHANGED retryrest

NextRetry ==
    \/ \E m \in MaxRetriesArgs, b \in BackoffArgs : RetryTelegramRequest(m, b)
    \/ \E res \in CallResults : RetryAttempt(res)
    \/ \E extra \in 0..1 : RetrySleep(extra)

\* the event loop resumes a coroutine whose awaited call or sleep has ended
SpecRetry == Init /\ [][NextRetry]_vars /\ WF_vars(NextRetry)

(***************************************************************************)
(* The persistent profile cache called directly (cache_manager.py), one    *)
(* instance from its construction on.  A cached record is a function from  *)
(* its keys to their values, as the dict is; the records are values: the   *)
(* callers hand over a dict of their own (handlers.py: dict(profile)).     *)
(***************************************************************************)
\* ids the cache is called with
CachePids == {1, MaxId}

\* records handed to set
CacheProfiles ==
    { [id |-> 1, status |-> "pending"],
      [id |-> 1, status |-> "pending", note |-> <<"h", "i">>] }

\* field dicts handed to update (the second as admin_review_cb builds it)
CacheUpdates ==
    { [note |-> <<"y", "o">>],
      [status |-> "approved", reviewed_by_id |-> 3] }

\* what the write of the cache file comes to: written, not written at all
\* (mkdir or open raised), or opened for writing and left cut short (json.dump
\* or the disk raised)
DiskOutcomes == {"saved", "unwritable", "truncated"}

\* dict.update
dict_update(d, u) ==
    [k \in DOMAIN d \cup DOMAIN u |-> IF k \in DOMAIN u THEN u[k] ELSE d[k]]

\* _save_to_disk: every Exception is logged and swallowed.  A file cut short
\* does not parse, and _load_from_disk turns a file that does not parse into
\* the empty cache.
_save_to_disk(file, c, disk) ==
    [file |-> CASE disk = "saved" -> c
                [] disk = "unwritable" -> file
                [] OTHER -> [i \in DOMAIN c |-> {}],
     raised |-> FALSE]

\* 'age > timedelta(seconds=self.ttl)' of an entry that has a timestamp
cache_expired(ts, pid, t) ==
    ts[pid] # {} /\ t - (CHOOSE x \in ts[pid] : TRUE) > PROFILE_CACHE_TTL

\* faulty variant: update stores the fields under an id that has no entry
cache_update_upsert(c, pid, changes) ==
    IF c[pid] # {}
    THEN [c EXCEPT ![pid] = {dict_update(CHOOSE x \in c[pid] : TRUE, changes)}]
    ELSE [c EXCEPT ![pid] = {changes}]

\* PersistentProfileCache.update, the cache dict: 'if pid in self.cache'
cache_update(c, pid, changes) ==
    IF c[pid] # {}
    THEN [c EXCEPT ![pid] = {dict_update(CHOOSE x \in c[pid] : TRUE, changes)}]
    ELSE c

\* PersistentProfileCache.invalidate, the cache dict
cache_invalidate(c, pid) == [c EXCEPT ![pid] = {}]

\* PersistentProfileCache.invalidate_all, the cache dict
cache_invalidate_all(c) == [i \in DOMAIN c |-> {}]

\* the call that has just been made, with what it returned and whether it
\* raised, the map from id to record that the calls so far describe, and the
\* time of the last write of every id: a set, or an update that found the entry
Called(op, pid, result, raised, map, set_at) ==
    [calls |-> history.calls + 1, map |-> map, set_at |-> set_at,
     written_at |-> IF op = "set" \/ (op = "update" /\ cache[pid] # {})
                    THEN [history.written_at EXCEPT ![pid] = {now}]
                    ELSE history.written_at,
     last |-> [op |-> op, pid |-> pid, result |-> result, raised |-> raised,
               at |-> now]]

cacherest ==
    <<profiles, seq, user_data, conv, ev, decided, freed, updates, reports, rseq, upd,
      failing, retry, limiter, verdicts, filed, flow>>

\* profile_cache.set(pid, profile)
CacheSet(pid, profile, disk) ==
    LET c == cache_set(cache, pid, profile)
        saved == _save_to_disk(cache_file, c, disk)
    IN
    /\ history.calls < MaxCacheCalls
    /\ cache' = c
    /\ timestamps' = [timestamps EXCEPT ![pid] = {now}]
    /\ cache_file' = saved.file
    /\ history' = Called("set", pid, {}, saved.raised,
                         [history.map EXCEPT ![pid] = {profile}],
                         [history.set_at EXCEPT ![pid] = {now}])
    /\ UNCHANGED now
    /\ UNCHANGED cacherest

\* profile_cache.update(pid, changes)
CacheUpdate(pid, changes, disk) ==
    LET c == cache_update(cache, pid, changes)
        saved == _save_to_disk(cache_file, c, disk)
    IN
    /\ history.calls < MaxCacheCalls
    /\ cache' = c
    /\ timestamps' = IF cache[pid] # {}
                     THEN [timestamps EXCEPT ![pid] = {now}] ELSE timestamps
    /\ cache_file' = saved.file
    /\ history' = Called("update", pid, {}, saved.raised,
                         [history.map EXCEPT ![pid] =
                              {dict_update(r, changes) : r \in history.map[pid]}],
                         history.set_at)
    /\ UNCHANGED now
    /\ UNCHANGED cacherest

\* profile_cache.invalidate(pid)
CacheInvalidate(pid, disk) ==
    LET c == cache_invalidate(cache, pid)
        saved == _save_to_disk(cache_file, c, disk)
    IN
    /\ history.calls < MaxCacheCalls
    /\ cache' = c
    /\ timestamps' = [timestamps EXCEPT ![pid] = {}]
    /\ cache_file' = saved.file
    /\ history' = Called("invalidate", pid, {}, saved.raised,
                         [history.map EXCEPT ![pid] = {}], history.set_at)
    /\ UNCHANGED now
    /\ UNCHANGED cacherest

\* profile_cache.invalidate_all()
CacheInvalidateAll(disk) ==
    LET c == cache_invalidate_all(cache)
        saved == _save_to_disk(cache_file, c, disk)
    IN
    /\ history.calls < MaxCacheCalls
    /\ cache' = c
    /\ timestamps' = [i \in DOMAIN timestamps |-> {}]
    /\ cache_file' = saved.file
    /\ history' = Called("invalidate_all", 0, {}, saved.raised,
                         [i \in Ids |-> {}], history.set_at)
    /\ UNCHANGED now
    /\ UNCHANGED cacherest

\* profile_cache.get(pid): an entry older than the TTL is dropped by the read
\* that finds it
CacheGet(pid) ==
    /\ history.calls < MaxCacheCalls
    /\ IF cache[pid] = {}
       THEN /\ history' = Called("get", pid, {}, FALSE, history.map, history.set_at)
            /\ UNCHANGED <<cache, timestamps>>
       ELSE IF cache_expired(timestamps, pid, now)
       THEN /\ cache' = [cache EXCEPT ![pid] = {}]
            /\ timestamps' = [timestamps EXCEPT ![pid] = {}]
            /\ history' = Called("get", pid, {}, FALSE, history.map, history.set_at)
       ELSE /\ history' = Called("get", pid, cache[pid], FALSE,
                                 history.map, history.set_at)
            /\ UNCHANGED <<cache, timestamps>>
    /\ UNCHANGED <<now, cache_file>>
    /\ UNCHANGED cacherest

\* a second passes
CacheTick ==
    /\ now < MaxClock
    /\ now' = now + 1
    /\ UNCHANGED <<cache, timestamps, cache_file, history>>
    /\ UNCHANGED cacherest

NextCache ==
    \/ \E pid \in CachePids, profile \in CacheProfiles, disk \in DiskOutcomes :
          CacheSet(pid, profile, disk)
    \/ \E pid \in CachePids, changes \in CacheUpdates, disk \in DiskOutcomes :
          CacheUpdate(pid, changes, disk)
    \/ \E pid \in CachePids, disk \in DiskOutcomes : CacheInvalidate(pid, disk)
    \/ \E disk \in DiskOutcomes : CacheInvalidateAll(disk)
    \/ \E pid \in CachePids : CacheGet(pid)
    \/ CacheTick

SpecCache == Init /\ [][NextCache]_vars

(***************************************************************************)
(* The profile cache over restarts: the process ends and a new             *)
(* PersistentProfileCache is constructed from the cache file.              *)
(***************************************************************************)
\* the key of an id after json.dump ('str(k)') and json.load ('int(k)')
json_key(i) == CHOOSE n \in int(str(i)) : TRUE

\* _load_from_disk, the cache dict: the 'cache' object of the file under its
\* keys read back as integers (a file that does not exist or does not parse
\* leaves the cache empty, which the file map without entries stands for)
loaded_cache(file) == [i \in DOMAIN file |-> file[json_key(i)]]

\* _load_from_disk, the timestamps: 'self.timestamps[pid] = datetime.now()' for
\* every id of the loaded cache; 'saved_at' of the file is not read
loaded_timestamps(c, t) == [i \in DOMAIN c |-> IF c[i] # {} THEN {t} ELSE {}]

\* the process is restarted: PersistentProfileCache.__init__ and _load_from_disk
CacheReload ==
    LET c == loaded_cache(cache_file) IN
    /\ history.calls < MaxCacheCalls
    /\ cache' = c
    /\ timestamps' = loaded_timestamps(c, now)
    /\ history' = Called("load", 0, {}, FALSE, history.map, history.set_at)
    /\ UNCHANGED <<now, cache_file>>
    /\ UNCHANGED cacherest

\* profile_cache.get_all(): the entries that are not older than the TTL, each
\* with its id; the others are dropped
CacheGetAll ==
    LET expired_pids == {i \in DOMAIN cache :
                           cache[i] # {} /\ cache_expired(timestamps, i, now)}
    IN
    /\ history.calls < MaxCacheCalls
    /\ cache' = [i \in DOMAIN cache |-> IF i \in expired_pids THEN {} ELSE cache[i]]
    /\ timestamps' = [i \in DOMAIN timestamps |->
                         IF i \in expired_pids THEN {} ELSE timestamps[i]]
    /\ history' = Called("get_all", 0,
                         UNION {{<<i, r>> : r \in cache[i]} :
                                  i \in DOMAIN cache \ expired_pids},
                         FALSE, history.map, history.set_at)
    /\ UNCHANGED <<now, cache_file>>
    /\ UNCHANGED cacherest

NextCacheTTL ==
    \/ \E pid \in CachePids, profile \in CacheProfiles, disk \in DiskOutcomes :
          CacheSet(pid, profile, disk)
    \/ \E pid \in CachePids, changes \in CacheUpdates, disk \in DiskOutcomes :
          CacheUpdate(pid, changes, disk)
    \/ \E pid \in CachePids : CacheGet(pid)
    \/ CacheGetAll
    \/ CacheReload
    \/ CacheTick

SpecCacheTTL == Init /\ [][NextCacheTTL]_vars

(***************************************************************************)
(* The per-user rate limiter called directly (rate_limiter.py).  Time is   *)
(* datetime.now() in whole seconds and does not run backwards.             *)
(***************************************************************************)
\* users that call the limiter
LimiterUsers == {1, 2}

\* arguments of the constructor: max_rate (None, 0, 1, 2) and time_period
MaxRateArgs == {{}, {0}, {1}, {2}}
TimePeriodArgs == {{}, {2}}

\* 'req_time for req_time in self.requests[user_id] if req_time > cutoff'
requests_after(reqs, cutoff) == SelectSeq(reqs, LAMBDA req_time : req_time > cutoff)

\* faulty variant: the limit is taken to be exceeded one request too late
limit_exceeded_late(n, max_rate) == n > max_rate

\* 'len(self.requests[user_id]) >= self.max_rate'
limit_exceeded(n, max_rate) == n >= max_rate

\* get_reset_time, on the list as it is
get_reset_time(reqs, time_period, t) ==
    IF reqs = <<>> THEN 0
    ELSE LET reset == reqs[1] + time_period IN
         IF reset > t THEN (reset - t) + 1 ELSE 0

\* the call that has just been made on the limiter
Verdict(op, user, allowed, reset) ==
    [calls |-> verdicts.calls + 1,
     granted |-> IF allowed
                 THEN [verdicts.granted EXCEPT ![user] = Append(@, now)]
                 ELSE verdicts.granted,
     last |-> [op |-> op, user |-> user, allowed |-> allowed, reset |-> reset,
               at |-> now,
               after_refusal |-> /\ op = "get_reset_time"
                                 /\ verdicts.last.op = "is_allowed"
                                 /\ verdicts.last.user = user
                                 /\ ~ verdicts.last.allowed
                                 /\ verdicts.last.at = now]]

limiterrest ==
    <<profiles, seq, cache, user_data, conv, ev, decided, freed, updates, reports, rseq,
      upd, failing, retry, timestamps, cache_file, history, filed, flow>>

\* UserRateLimiter(max_rate, time_period): a limiter of its own, as a test makes
\* one, in place of the global 'rate_limiter = UserRateLimiter()'
NewUserRateLimiter(max_rate, time_period) ==
    /\ verdicts.calls = 0
    /\ limiter = UserRateLimiter({}, {})
    /\ limiter' = UserRateLimiter(max_rate, time_period)
    /\ limiter' # limiter
    /\ UNCHANGED <<verdicts, now>>
    /\ UNCHANGED limiterrest

\* rate_limiter.is_allowed(user_id)
IsAllowed(user_id) ==
    LET cutoff == now - limiter.time_period
        kept == requests_after(limiter.requests[user_id], cutoff)
    IN
    /\ verdicts.calls < MaxLimiterCalls
    /\ IF limit_exceeded(Len(kept), limiter.max_rate)
       THEN /\ limiter' = [limiter EXCEPT !.requests[user_id] = kept]
            /\ verdicts' = Verdict("is_allowed", user_id, FALSE, 0)
       ELSE /\ limiter' = [limiter EXCEPT !.requests[user_id] = Append(kept, now)]
            /\ verdicts' = Verdict("is_allowed", user_id, TRUE, 0)
    /\ UNCHANGED now
    /\ UNCHANGED limiterrest

\* rate_limiter.get_reset_time(user_id)
GetResetTime(user_id) ==
    /\ verdicts.calls < MaxLimiterCalls
    /\ verdicts' = Verdict("get_reset_time", user_id, FALSE,
                           get_reset_time(limiter.requests[user_id],
                                          limiter.time_period, now))
    /\ UNCHANGED <<limiter, now>>
    /\ UNCHANGED limiterrest

\* a second passes
LimiterTick ==
    /\ now < MaxClock
    /\ now' = now + 1
    /\ UNCHANGED <<limiter, verdicts>>
    /\ UNCHANGED limiterrest

NextLimiter ==
    \/ \E max_rate \in MaxRateArgs, time_period \in TimePeriodArgs :
          NewUserRateLimiter(max_rate, time_period)
    \/ \E user_id \in LimiterUsers : IsAllowed(user_id)
    \/ \E user_id \in LimiterUsers : GetResetTime(user_id)
    \/ LimiterTick

SpecLimiter == Init /\ [][NextLimiter]_vars

(***************************************************************************)
(* The report store called directly (db.py): add_report, get_reports,      *)
(* clear_reports, and init_db, which leaves the reports table as it is.    *)
(***************************************************************************)
\* the report dicts handed to add_report
DbReports ==
    [reporter_id : {1, 2}, category : {"bot", "afk"}, reason : {T_short, T_ok}]

\* faulty variant: the rows come oldest first
RECURSIVE get_reports_asc(_)
get_reports_asc(R) ==
    IF R = {} THEN <<>>
    ELSE LET first == CHOOSE r \in R : \A q \in R : r.id <= q.id IN
         <<first>> \o get_reports_asc(R \ {first})

\* get_reports: SELECT * FROM reports ORDER BY id DESC
RECURSIVE get_reports(_)
get_reports(R) ==
    IF R = {} THEN <<>>
    ELSE LET first == CHOOSE r \in R : \A q \in R : q.id <= r.id IN
         <<first>> \o get_reports(R \ {first})

\* the call that has just been made on the report store
Filed(op, added, rid, rows, ok) ==
    [calls |-> filed.calls + 1, added |-> added,
     last |-> [op |-> op, rid |-> rid, rows |-> rows, ok |-> ok,
               had |-> filed.added # <<>>]]

reportrest ==
    <<profiles, seq, cache, user_data, conv, ev, decided, freed, updates, upd, failing,
      retry, timestamps, now, cache_file, history, limiter, verdicts, flow>>

\* rid = db.add_report(report)
DbAddReport(report) ==
    /\ filed.calls < MaxReportCalls
    /\ rseq < MaxReportIds
    /\ reports' = add_report(reports, report, rseq + 1)
    /\ rseq' = rseq + 1
    /\ filed' = Filed("add_report", Append(filed.added, <<rseq + 1, report>>),
                      rseq + 1, <<>>, FALSE)
    /\ UNCHANGED reportrest

\* rows = db.get_reports()
DbGetReports ==
    /\ filed.calls < MaxReportCalls
    /\ filed' = Filed("get_reports", filed.added, 0, get_reports(reports), FALSE)
    /\ UNCHANGED <<reports, rseq>>
    /\ UNCHANGED reportrest

\* ok = db.clear_reports(): 'affected > 0'
DbClearReports ==
    /\ filed.calls < MaxReportCalls
    /\ reports' = clear_reports(reports)
    /\ filed' = Filed("clear_reports", <<>>, 0, <<>>, Cardinality(reports) > 0)
    /\ UNCHANGED rseq
    /\ UNCHANGED reportrest

\* db.init_db() at a restart: the reports table exists and is not touched
DbInitReports ==
    /\ filed.calls < MaxReportCalls
    /\ filed' = Filed("init_db", filed.added, 0, <<>>, FALSE)
    /\ UNCHANGED <<reports, rseq>>
    /\ UNCHANGED reportrest

NextReports ==
    \/ \E report \in DbReports : DbAddReport(report)
    \/ DbGetReports
    \/ DbClearReports
    \/ DbInitReports

SpecReports == Init /\ [][NextReports]_vars

(***************************************************************************)
(* The directory: the user list and the profile cards (handlers.py), next  *)
(* to the new-profile flow that brings pending rows into the store.        *)
(***************************************************************************)
\* db.get_all_profiles(status=None): 'if status:' selects by status, else all rows
get_all_profiles(P, status) ==
    IF status = {} THEN P ELSE {p \in P : {p.status} = status}

\* users_list_entry: 'db.get_all_profiles(status='approved')'
users_list_rows(P) == get_all_profiles(P, {"approved"})

\* users_list_entry
UsersListEntry(u) ==
    /\ ev' = Showing(Event("users_list", u, 0, <<>>, "list", {}), users_list_rows(profiles))
    /\ UNCHANGED <<profiles, seq, cache, user_data, conv, decided, freed, reports, rseq>>

\* the payloads of the pattern of back_to_users: back:<target>
BackTargets == {"users", "menu", "add_new", "profiles"}

\* back_to_users: back:profiles goes on to admin_manage_profiles, every other
\* target sends the list of 'db.get_all_profiles()'
BackToUsers(u, target) ==
    IF target = "profiles" THEN AdminManageProfiles(u)
    ELSE /\ ev' = Showing(Event("back_to_users", u, 0, <<>>, "list", {}),
                          get_all_profiles(profiles, {}))
         /\ UNCHANGED <<profiles, seq, cache, user_data, conv, decided, freed, reports,
                        rseq>>

NextDirectory ==
    \/ \E u \in Members : ProfileStep /\ ProfileNewStartCb(u)
    \/ \E u \in Members, t \in Texts : ProfileStep /\ NewProfileReceive(u, t)
    \/ \E u \in Members : ProfileStep /\ NewProfileConfirmCb(u)
    \/ \E u \in Users : AdminStep /\ UsersListEntry(u)
    \/ \E u \in Users, target \in BackTargets : AdminStep /\ BackToUsers(u, target)
    \/ \E u \in Users, n \in Usernames : AdminStep /\ ViewProfileCb(u, n)

SpecDirectory == Init /\ [][NextDirectory]_vars

(***************************************************************************)
(* Inline keyboards (keyboards.py, handlers.py) and the callback patterns  *)
(* of main().  The callback data of a button is the text the keyboard      *)
(* wrote, character by character; a pattern is matched against that text. *)
(***************************************************************************)
\* the callback data written by the keyboards and named by the patterns
D_view == <<"v","i","e","w",":">>
D_back_users == <<"b","a","c","k",":","u","s","e","r","s">>
D_back_menu == <<"b","a","c","k",":","m","e","n","u">>
D_back_add_new == <<"b","a","c","k",":","a","d","d","_","n","e","w">>
D_back_profiles == <<"b","a","c","k",":","p","r","o","f","i","l","e","s">>
D_back_manage_profiles == <<"b","a","c","k",":","m","a","n","a","g","e","_","p","r","o","f","i","l","e","s">>
D_delete == <<"d","e","l","e","t","e",":">>
D_delete_confirm == <<"d","e","l","e","t","e","_","c","o","n","f","i","r","m",":">>
D_profile_new_start == <<"p","r","o","f","i","l","e",":","n","e","w","_","s","t","a","r","t">>
D_profile_edit_start == <<"p","r","o","f","i","l","e",":","e","d","i","t","_","s","t","a","r","t">>
D_admin_reports == <<"a","d","m","i","n",":","r","e","p","o","r","t","s">>
D_admin_clear_reports == <<"a","d","m","i","n",":","c","l","e","a","r","_","r","e","p","o","r","t","s">>
D_admin_new_profiles == <<"a","d","m","i","n",":","n","e","w","_","p","r","o","f","i","l","e","s">>
D_admin_manage_profiles == <<"a","d","m","i","n",":","m","a","n","a","g","e","_","p","r","o","f","i","l","e","s">>
D_admin_profile == <<"a","d","m","i","n",":","p","r","o","f","i","l","e",":">>
D_admin_edit == <<"a","d","m","i","n",":","e","d","i","t",":">>
D_admin_delete == <<"a","d","m","i","n",":","d","e","l","e","t","e",":">>
D_admin_afk_requests == <<"a","d","m","i","n",":","a","f","k","_","r","e","q","u","e","s","t","s">>
D_admin_admin_applications == <<"a","d","m","i","n",":","a","d","m","i","n","_","a","p","p","l","i","c","a","t","i","o","n","s">>
D_review == <<"r","e","v","i","e","w",":">>
D_report == <<"r","e","p","o","r","t",":">>
D_new_confirm == <<"n","e","w",":","c","o","n","f","i","r","m">>
D_new_cancel == <<"n","e","w",":","c","a","n","c","e","l">>
D_new_edit == <<"n","e","w",":","e","d","i","t">>
D_edit == <<"e","d","i","t",":">>
D_edit_confirm == <<"e","d","i","t",":","c","o","n","f","i","r","m">>
D_edit_cancel == <<"e","d","i","t",":","c","a","n","c","e","l">>
D_afk_cancel == <<"a","f","k",":","c","a","n","c","e","l">>
D_admin_app_cancel == <<"a","d","m","i","n","_","a","p","p",":","c","a","n","c","e","l">>
D_accept == <<":","a","c","c","e","p","t">>
D_reject == <<":","r","e","j","e","c","t">>

\* re.match of a pattern '^prefix'
startswith(s, prefix) == Len(s) >= Len(prefix) /\ SubSeq(s, 1, Len(prefix)) = prefix

\* q.data.split(':', 1)[1]
RECURSIVE after_colon(_)
after_colon(s) ==
    IF s = <<>> THEN <<>>
    ELSE IF Head(s) = ":" THEN Tail(s) ELSE after_colon(Tail(s))

\* q.data.split(':'), word being the part read so far
RECURSIVE split_colon(_, _)
split_colon(s, word) ==
    IF s = <<>> THEN <<word>>
    ELSE IF Head(s) = ":" THEN <<word>> \o split_colon(Tail(s), <<>>)
    ELSE split_colon(Tail(s), Append(word, Head(s)))

\* keyboards.users_list_kb
users_list_kb(usernames) ==
    {D_view \o n : n \in usernames} \cup {D_back_add_new, D_back_menu}

\* keyboards.profile_actions_kb: the callback data of the buttons under a card
profile_actions_data(username, kb) ==
    {D_back_users}
        \cup (IF kb \in {"card_edit", "card_edit_delete"} THEN {D_edit \o username}
              ELSE {})
        \cup (IF kb = "card_edit_delete" THEN {D_delete \o username} ELSE {})

\* keyboards.confirm_delete_kb
confirm_delete_kb(username) == {D_delete_confirm \o username, D_back_users}

\* keyboards.new_profile_preview_kb
new_profile_preview_kb == {D_new_confirm, D_new_edit, D_new_cancel}

\* keyboards.profile_menu_kb
profile_menu_kb(with_profile) ==
    IF with_profile THEN {D_profile_edit_start, D_back_menu}
    ELSE {D_profile_new_start, D_back_menu}

\* keyboards.edit_profile_preview_kb
edit_profile_preview_kb == {D_edit_confirm, D_edit_cancel}

\* keyboards.admin_review_kb
admin_review_kb(profile_id) ==
    {D_review \o str(profile_id) \o D_accept, D_review \o str(profile_id) \o D_reject}

\* the inline menu of admin_panel_entry
admin_panel_kb ==
    {D_admin_reports, D_admin_new_profiles, D_admin_manage_profiles,
     D_admin_afk_requests, D_admin_admin_applications, D_back_menu}

\* keyboards.admin_manage_profiles_kb
admin_manage_profiles_kb(usernames) ==
    {D_admin_profile \o n : n \in usernames} \cup {D_back_menu}

\* keyboards.admin_profile_action_kb
admin_profile_action_kb(username) ==
    {D_admin_edit \o username, D_admin_delete \o username, D_back_manage_profiles}

\* the callback data of the buttons of the answer e, sent while the table held
\* the rows P (the handlers that send a list or previews leave the table as it is)
keyboard_of(e, P) ==
    CASE e.op \in {"users_list", "back_to_users"} /\ e.resp = "list" ->
            users_list_kb({p.username : p \in e.shown})
      [] e.op = "view_profile" /\ e.resp # "not_found" ->
            profile_actions_data(e.uname, e.resp)
      [] e.op \in {"delete_profile", "admin_delete_profile"}
            /\ e.resp = "confirm_prompt" -> confirm_delete_kb(e.uname)
      [] e.op \in {"new_profile_receive", "try_auto_profile_submit"}
            /\ e.resp = "preview" -> new_profile_preview_kb
      [] e.op = "edit_profile_receive" /\ e.resp = "preview" -> edit_profile_preview_kb
      [] e.op = "profile_menu_entry" -> profile_menu_kb(e.resp = "edit_menu")
      [] e.op = "new_confirm" /\ e.resp = "submitted" -> admin_review_kb(e.pid)
      [] e.op = "admin_panel_entry" /\ e.resp = "panel" -> admin_panel_kb
      [] e.op = "admin_manage_profiles" /\ e.resp = "list" ->
            admin_manage_profiles_kb(
                {p.username : p \in get_all_profiles(P, {"approved"})})
      [] e.op = "admin_profile_action" /\ e.resp = "actions" ->
            admin_profile_action_kb(e.uname)
      [] e.op = "admin_new_profiles_view" /\ e.resp = "previews" ->
            UNION {admin_review_kb(p.id) :
                     p \in {r \in get_profiles_by_status(P, "pending") :
                              r.added_by # <<>> /\ r.added_by # U_seed}}
      [] OTHER -> {}

\* the handlers of main() that take callback queries, in registration order,
\* each with whether it accepts the callback data d of a user whose
\* conversations are in the states c: the entry points and fallbacks of the
\* conversations, then the CallbackQueryHandlers
callback_handlers(c, d) ==
    << <<"profile_new_start_cb", c.new = END /\ d = D_profile_new_start>>,
       <<"afk_cancel_inline", c.afk # END /\ d = D_afk_cancel>>,
       <<"admin_app_cancel_inline", c.admin_app # END /\ d = D_admin_app_cancel>>,
       <<"profile_edit_start_cb", c.edit = END /\ d = D_profile_edit_start>>,
       <<"view_profile_cb", startswith(d, D_view)>>,
       <<"back_to_users",
         d \in {D_back_users, D_back_menu, D_back_add_new, D_back_profiles}>>,
       <<"delete_profile_cb", startswith(d, D_delete)>>,
       <<"delete_profile_confirm_cb", startswith(d, D_delete_confirm)>>,
       <<"profile_new_start_cb", d = D_profile_new_start>>,
       <<"profile_edit_start_cb", d = D_profile_edit_start>>,
       <<"admin_reports_view", d = D_admin_reports>>,
       <<"admin_clear_reports", d = D_admin_clear_reports>>,
       <<"admin_new_profiles_view", d = D_admin_new_profiles>>,
       <<"admin_manage_profiles", d = D_admin_manage_profiles>>,
       <<"admin_profile_action", startswith(d, D_admin_profile)>>,
       <<"admin_edit_profile_start", startswith(d, D_admin_edit)>>,
       <<"admin_delete_profile", startswith(d, D_admin_delete)>>,
       <<"admin_afk_requests", d = D_admin_afk_requests>>,
       <<"admin_admin_applications", d = D_admin_admin_applications>>,
       <<"admin_review_cb", startswith(d, D_review)>>,
       <<"report_select_cb", startswith(d, D_report)>>,
       <<"new_profile_confirm_cb", d = D_new_confirm>>,
       <<"new_profile_cancel_cb", d = D_new_cancel>>,
       <<"edit_profile_confirm_cb", d = D_edit_confirm>>,
       <<"edit_profile_cancel_cb", d = D_edit_cancel>> >>

\* Application.process_update for a callback query: the first handler that
\* accepts the callback data, "none" when no handler does
button_handler(c, d) ==
    IF FirstOf(callback_handlers(c, d)) = <<>> THEN "none"
    ELSE Head(FirstOf(callback_handlers(c, d)))

\* the users to whom the keyboard of the answer e was sent: the admins for the
\* moderation message of new_profile_confirm_cb, else the user who is answered
recipients(e) ==
    IF e.op = "new_confirm" /\ e.resp = "submitted" THEN e.notified ELSE {e.user}

\* a user who was sent the answer ev presses one of its buttons, and the
\* application hands the callback query to handler h
Pressed(h, u, d) ==
    /\ Tick
    /\ u \in recipients(ev)
    /\ d \in keyboard_of(ev, profiles)
    /\ h = button_handler(conv[u], d)
    /\ upd' = Update("button", u, d, h)
    /\ UNCHANGED envvars

\* 'target' of back_to_users: the callback data after 'back:'
back_target(d) ==
    CASE d = D_back_users -> "users" [] d = D_back_menu -> "menu"
      [] d = D_back_add_new -> "add_new" [] d = D_back_profiles -> "profiles"

\* 'action = parts[2]' of admin_review_cb
review_action(d) ==
    LET a == split_colon(d, <<>>)[3] IN
    IF a = Tail(D_accept) THEN "accept" ELSE IF a = Tail(D_reject) THEN "reject"
    ELSE "other"

\* The bot as a user of the buttons sees it: a menu label or a text brings an
\* answer with a keyboard, and every further step presses a button of the
\* keyboard last sent.
NextButtons ==
    \/ \E u \in Pressers : AdminStep /\ UsersListEntry(u)
    \/ \E u \in Pressers : AdminStep /\ AdminPanelEntry(u)
    \/ \E u \in Members : AdminStep /\ ProfileMenuEntry(u)
    \/ \E u \in Members, t \in Texts : ProfileStep /\ NewProfileReceive(u, t)
    \/ \E u \in Members, t \in Texts :
          ProfileStep /\ conv[u].new # NP_WAIT_TEXT /\ EditProfileReceive(u, t)
    \/ \E u \in Members, t \in Texts : ProfileStep /\ TryAutoProfileSubmit(u, t)
    \/ \E u \in Users, d \in keyboard_of(ev, profiles) :
          /\ Pressed("profile_new_start_cb", u, d)
          /\ ProfileNewStartCb(u) /\ UNCHANGED <<reports, rseq>>
    \/ \E u \in Users, d \in keyboard_of(ev, profiles) :
          /\ Pressed("profile_edit_start_cb", u, d)
          /\ ProfileEditStartCb(u) /\ UNCHANGED <<reports, rseq>>
    \/ \E u \in Users, d \in keyboard_of(ev, profiles) :
          /\ Pressed("edit_profile_confirm_cb", u, d)
          /\ EditProfileConfirmCb(u) /\ UNCHANGED <<reports, rseq>>
    \/ \E u \in Users, d \in keyboard_of(ev, profiles) :
          /\ Pressed("edit_profile_cancel_cb", u, d)
          /\ EditProfileCancelCb(u) /\ UNCHANGED <<reports, rseq>>
    \/ \E u \in Users, d \in keyboard_of(ev, profiles) :
          /\ Pressed("view_profile_cb", u, d)
          /\ ViewProfileCb(u, after_colon(d))
    \/ \E u \in Users, d \in keyboard_of(ev, profiles) :
          /\ Pressed("back_to_users", u, d)
          /\ BackToUsers(u, back_target(d))
    \/ \E u \in Users, d \in keyboard_of(ev, profiles) :
          /\ Pressed("delete_profile_cb", u, d)
          /\ DeleteProfileCb(u, after_colon(d))
    \/ \E u \in Users, d \in keyboard_of(ev, profiles) :
          /\ Pressed("delete_profile_confirm_cb", u, d)
          /\ DeleteProfileConfirmCb(u, after_colon(d)) /\ UNCHANGED <<reports, rseq>>
    \/ \E u \in Users, d \in keyboard_of(ev, profiles) :
          Pressed("admin_reports_view", u, d) /\ AdminReportsView(u)
    \/ \E u \in Users, d \in keyboard_of(ev, profiles) :
          Pressed("admin_new_profiles_view", u, d) /\ AdminNewProfilesView(u)
    \/ \E u \in Users, d \in keyboard_of(ev, profiles) :
          Pressed("admin_manage_profiles", u, d) /\ AdminManageProfiles(u)
    \/ \E u \in Users, d \in keyboard_of(ev, profiles) :
          /\ Pressed("admin_profile_action", u, d)
          /\ AdminProfileAction(u, split_colon(d, <<>>)[3])
    \/ \E u \in Users, d \in keyboard_of(ev, profiles) :
          /\ Pressed("admin_edit_profile_start", u, d)
          /\ AdminEditProfileStart(u, split_colon(d, <<>>)[3])
    \/ \E u \in Users, d \in keyboard_of(ev, profiles) :
          /\ Pressed("admin_delete_profile", u, d)
          /\ AdminDeleteProfile(u, split_colon(d, <<>>)[3])
    \/ \E u \in Users, d \in keyboard_of(ev, profiles) :
          Pressed("admin_afk_requests", u, d) /\ AdminAfkRequests(u)
    \/ \E u \in Users, d \in keyboard_of(ev, profiles) :
          Pressed("admin_admin_applications", u, d) /\ AdminAdminApplications(u)
    \/ \E u \in Users, d \in keyboard_of(ev, profiles) :
          /\ Pressed("admin_review_cb", u, d)
          /\ AdminReviewCb(u, CHOOSE n \in int(split_colon(d, <<>>)[2]) : TRUE,
                           review_action(d))
          /\ UNCHANGED <<reports, rseq>>
    \/ \E u \in Users, d \in keyboard_of(ev, profiles) :
          /\ Pressed("new_profile_confirm_cb", u, d)
          /\ NewProfileConfirmCb(u) /\ UNCHANGED <<reports, rseq>>
    \/ \E u \in Users, d \in keyboard_of(ev, profiles) :
          /\ Pressed("new_profile_cancel_cb", u, d)
          /\ NewProfileCancelCb(u) /\ UNCHANGED <<reports, rseq>>
    \/ \E u \in Users, d \in keyboard_of(ev, profiles) :
          Pressed("none", u, d) /\ Unhandled(u)

SpecButtons == Init /\ [][NextButtons]_vars

(***************************************************************************)
(* The admin edit session: admin:edit:<username> opens it, and the text    *)
(* that follows is routed by the application like every other text.  In    *)
(* main() try_auto_profile_submit is registered before                     *)
(* admin_receive_profile_edit and admin_receive_edit under the same        *)
(* filter, so Route never hands a text to the latter two.                  *)
(***************************************************************************)
\* the texts an admin sends after opening the session: a long and a short one
EditTexts == {T_ok, M_sick}

\* user u presses a button with the callback data d, and the application hands
\* the callback query to handler h
Press(h, u, d) ==
    /\ Tick
    /\ h = button_handler(conv[u], d)
    /\ upd' = Update("button", u, d, h)
    /\ UNCHANGED envvars

NextAdminEdit ==
    \/ \E u \in Pressers, n \in Usernames :
          /\ Press("admin_edit_profile_start", u, D_admin_edit \o n)
          /\ AdminEditProfileStart(u, n)
    \/ \E u \in Pressers, t \in EditTexts :
          /\ Route("try_auto_profile_submit", u, Msg(t))
          /\ TryAutoProfileSubmit(u, t) /\ UNCHANGED <<reports, rseq>>
    \/ \E u \in Pressers :
          /\ Press("new_profile_cancel_cb", u, D_new_cancel)
          /\ NewProfileCancelCb(u) /\ UNCHANGED <<reports, rseq>>

SpecAdminEdit == Init /\ [][NextAdminEdit]_vars

(***************************************************************************)
(* The report flow with its history.  'flow' keeps for every user what the *)
(* most recent report_start met (whether the sender had a profile record)  *)
(* and the category chosen since; the handlers neither read nor write it.  *)
(* A category button is pressed once a category keyboard was sent.         *)
(* A Telegram account may have no username: the sender of an update is the *)
(* user id with the username the account has at that moment.               *)
(***************************************************************************)
\* the usernames under which user u sends: the one of the account, or none
SenderNames(u) == {UsernameOf[u], <<>>}

\* the texts and the buttons of the report flow
ReportTexts == {M_Report, M_sick}
ReportButtons == { <<"report","chat">>, <<"report","cancel">> }

\* the history after report_start has run for user u under the username name
Asked(u, name) ==
    LET found == get_profile_by_username(profiles, name) # {} IN
    [flow EXCEPT ![u] = [shown |-> @.shown \/ name = <<>> \/ found,
                         had_record |-> found,
                         chosen |-> {}]]

\* the history after user u has pressed report:<cat>
Chosen(u, cat) ==
    IF cat = "cancel" \/ cat = "menu" THEN flow
    ELSE [flow EXCEPT ![u].chosen = {cat}]

NextReportFlow ==
    \/ \E u \in Members, t \in ReportTexts : \E name \in SenderNames(u) :
          /\ RouteReport("report_start", u, Msg(t))
          /\ ReportStartAs(u, name)
          /\ flow' = Asked(u, name)
    \/ \E u \in Members, b \in ReportButtons :
          /\ flow[u].shown
          /\ RouteReport("report_select_cb", u, Btn(b))
          /\ ReportSelectCb(u, b)
          /\ flow' = Chosen(u, b[2])
    \/ \E u \in Members, t \in ReportTexts :
          /\ RouteReport("report_reason_received", u, Msg(t))
          /\ ReportReasonReceived(u, t)
          /\ UNCHANGED flow
    \/ \E u \in Members, t \in ReportTexts :
          /\ Route("try_auto_profile_submit", u, Msg(t))
          /\ TryAutoProfileSubmit(u, t) /\ UNCHANGED <<reports, rseq>>

SpecReportFlow == Init /\ [][NextReportFlow]_vars

(***************************************************************************)
(* Properties                                                              *)
(***************************************************************************)
\* the optional draft of the user of the last event, before the event
DraftOf(u) == user_data[u].new_profile_preview

\* new_profile_confirm_cb lets the draft through its validation
DraftPasses(d) ==
    \E x \in d : x.note # <<>> => validate_profile_text(x.note)

\* the step is a press of new:confirm by a user whose draft passes validation
ValidConfirmStep ==
    /\ ev'.op = "new_confirm"
    /\ ev'.user \in Members
    /\ DraftOf(ev'.user) # {}
    /\ DraftPasses(DraftOf(ev'.user))

\* the step is a press of review:<id>:<op> by an admin on a row that is pending
ReviewStepOnPending(op) ==
    /\ ev'.op = op
    /\ IsAdmin(ev'.user)
    /\ \E p \in profiles : p.id = ev'.pid /\ p.status = "pending"

\* C1 (single review): once a review decision on an id has taken effect, every
\* later accept or reject of an admin on that id is answered 'already reviewed'
\* and leaves the store unchanged.
C1_SingleReview ==
    [][ ( /\ ev'.op \in {"review_accept", "review_reject"}
          /\ IsAdmin(ev'.user)
          /\ ev'.pid \in decided )
        => ( /\ ev'.resp = "already_reviewed"
             /\ profiles' = profiles ) ]_vars

\* C2 (approve transition): accept by an admin on a pending, unreviewed profile
\* makes the row approved with the admin as reviewer, listed among the approved
\* rows, and the submitter is notified.
C2_ApproveTransition ==
    [][ ReviewStepOnPending("review_accept")
        => \E q \in get_profiles_by_status(profiles', "approved") :
              /\ q.id = ev'.pid
              /\ reviewed_by_id(q) = {ev'.user}
              /\ submitter_of(q) \subseteq ev'.notified ]_vars

\* C3 (reject transition): reject by an admin on a pending profile deletes the
\* row and attempts the notification of the submitter when the id is known.
C3_RejectTransition ==
    [][ ReviewStepOnPending("review_reject")
        => /\ get_profile_by_id(profiles', ev'.pid) = {}
           /\ \A p \in get_profile_by_id(profiles, ev'.pid) :
                 submitter_of(p) \subseteq ev'.notified ]_vars

UsernamesUnique == \A p, q \in profiles : p.username = q.username => p = q

\* C5 (username uniqueness): in every state of the store no two rows have the
\* same username, and an add_profile for a username that is present fails and
\* leaves the store unchanged.
C5_UsernameUnique ==
    [][ /\ UsernamesUnique'
        /\ ( /\ ev'.op = "add_profile"
             /\ get_profile_by_username(profiles, ev'.uname) # {} )
           => ( /\ ev'.resp = "integrity_error"
                /\ profiles' = profiles
                /\ seq' = seq ) ]_vars

\* an add_profile for a present username was refused
C5_Witness ==
    /\ ev.op = "add_profile"
    /\ ev.resp = "integrity_error"
    /\ get_profile_by_username(profiles, ev.uname) # {}

\* C6 (approved uniqueness, case-insensitive): no two approved rows have
\* usernames that are equal when compared case-insensitively.
C6_ApprovedUniqueNoCase ==
    \A p, q \in get_profiles_by_status(profiles, "approved") :
        lower(p.username) = lower(q.username) => p = q

\* C7 (submissions are pending): a row created by a new-profile confirm has
\* status pending, a fresh id, and is among the pending rows.
C7_ConfirmCreatesPending ==
    (ev.op = "new_confirm" /\ ev.resp = "submitted")
    => \E q \in get_profiles_by_status(profiles, "pending") :
          /\ q.id = ev.pid
          /\ q.id = seq
          /\ \A r \in profiles : r.id = q.id => r = q

\* C8 (superseding a leftover): a valid confirm while a non-approved row of the
\* same username exists leaves exactly one row of that username, the new pending
\* one, and notifies the admins, all in that one confirm.
C8_SupersedeLeftover ==
    [][ ( /\ ValidConfirmStep
          /\ \E p \in profiles : /\ p.username = DraftName(DraftOf(ev'.user))
                                 /\ p.status # "approved" )
        => ( /\ ev'.notified = notified_ids
             /\ \E q \in profiles' :
                   /\ get_profile_by_username(profiles', DraftName(DraftOf(ev'.user))) = {q}
                   /\ q.id \notin 1..seq
                   /\ q.status = "pending" ) ]_vars

\* C9 (conflict on an approved profile): a confirm of a draft that passed
\* validation while an approved row of the same username exists is answered
\* with the conflict message and changes nothing in the store.
C9_ConflictLeavesStore ==
    [][ ( /\ ValidConfirmStep
          /\ \E p \in profiles : /\ p.username = DraftName(DraftOf(ev'.user))
                                 /\ p.status = "approved" )
        => ( /\ ev'.resp = "conflict"
             /\ profiles' = profiles
             /\ seq' = seq ) ]_vars

\* a confirm was refused with the conflict message, the approved row is there
C9_Witness ==
    /\ ev.op = "new_confirm"
    /\ ev.resp = "conflict"
    /\ \E p \in profiles : p.username = ev.uname /\ p.status = "approved"

\* C10 (cancel persists nothing): a cancel removes the draft of that user and
\* leaves the store unchanged; a confirm without a draft answers 'no data' and
\* leaves the store unchanged.
C10_CancelPersistsNothing ==
    [][ /\ ev'.op = "new_cancel"
           => /\ user_data'[ev'.user].new_profile_preview = {}
              /\ profiles' = profiles /\ seq' = seq
        /\ ev'.op = "edit_cancel"
           => /\ user_data'[ev'.user].edit_profile_preview = {}
              /\ user_data'[ev'.user].edit_username = {}
              /\ profiles' = profiles /\ seq' = seq
        /\ (ev'.op = "new_confirm" /\ user_data[ev'.user].new_profile_preview = {})
           => /\ ev'.resp = "no_data"
              /\ profiles' = profiles /\ seq' = seq
        /\ (ev'.op = "edit_confirm" /\ user_data[ev'.user].edit_profile_preview = {})
           => /\ ev'.resp = "no_data"
              /\ profiles' = profiles /\ seq' = seq ]_vars

\* a cancel has discarded an existing draft
C10_Witness ==
    /\ ev.op \in {"new_cancel", "edit_cancel"}
    /\ ev.uname # <<>>
    /\ user_data[ev.user].new_profile_preview = {}
    /\ user_data[ev.user].edit_profile_preview = {}

(***************************************************************************)
(* Properties of the report, AFK and admin-application flows, of the       *)
(* routing and of the privilege checks                                     *)
(***************************************************************************)
\* the update handled by the step, as Matching takes it
Handled == [kind |-> upd'.kind, data |-> upd'.data]

\* C11 (report cancel clears the session): when the last thing handled was a
\* press of report:cancel by a user, the next text message of that user is not
\* taken as a report reason that stores a Report.
C11_ReportCancelClears ==
    [][ ( /\ ev.op = "report_select" /\ ev.resp = "cancelled"
          /\ upd'.kind = "text" /\ upd'.user = ev.user
          /\ updates' # updates )
        => ~ ( /\ upd'.handler = "report_reason_received"
               /\ reports' # reports ) ]_vars

\* the flows with cancel fallbacks, their waiting states and their cancel buttons
CancellableFlows ==
    { [flow |-> "afk", states |-> {AFK_WAIT_DAYS, AFK_WAIT_REASON},
       button |-> <<"afk","cancel">>],
      [flow |-> "admin_app", states |-> {AA_WAIT_TEXT},
       button |-> <<"admin_app","cancel">>] }

Waiting(c) == {f \in DOMAIN c : c[f] # END}

\* C13 (at most one active flow per user): in every reachable state every user
\* has at most one of the five flows waiting.
C13_OneActiveFlow ==
    \A u \in Users : Cardinality(Waiting(conv[u])) <= 1

\* the reserved flow-entry triggers (labels of the main menu) and the handler of
\* each waiting step
ReservedTriggers == {M_AFK, M_Report, M_AdminApp, M_Anketa}
StepHandler(st) ==
    CASE st = NP_WAIT_TEXT -> "new_profile_receive"
      [] st = RP_WAIT_REASON -> "report_reason_received"
      [] st = EP_WAIT_TEXT -> "edit_profile_receive"
      [] st = AFK_WAIT_DAYS -> "afk_receive_days"
      [] st = AFK_WAIT_REASON -> "afk_receive_reason"
      [] st = AA_WAIT_TEXT -> "admin_app_receive"

\* C14 (active-flow continuation): a text of a user with one waiting flow goes
\* to the handler of the waiting step, unless it is exactly a reserved trigger
\* or a cancel keyword: then the waiting step does not consume it and the
\* session it waited in is over.
C14_ActiveFlowContinuation ==
    [][ \A f \in DOMAIN NoConv :
          ( /\ updates' # updates
            /\ upd'.kind = "text"
            /\ Waiting(conv[upd'.user]) = {f} )
          => IF upd'.data \in ReservedTriggers \cup CancelKeywords
             THEN /\ upd'.handler # StepHandler(conv[upd'.user][f])
                  /\ conv'[upd'.user][f] # conv[upd'.user][f]
             ELSE upd'.handler = StepHandler(conv[upd'.user][f]) ]_vars

\* the ev.op values the body of each routed handler writes
BodyOps(h) ==
    CASE h = "none" -> {"none"}
      [] h = "profile_new_start_cb" -> {"profile_new_start"}
      [] h = "profile_edit_start_cb" -> {"profile_edit_start"}
      [] h = "report_select_cb" -> {"report_select"}
      [] h = "admin_review_cb" -> {"review_accept", "review_reject", "review_delete"}
      [] OTHER -> {h}

days_phrase(days) == str(days) \o <<" ","~d","~n","~e","~j">>

C18_SingleShotReport ==
    [][ ( /\ updates' # updates
          /\ upd'.kind = "text" /\ upd'.data = M_single
          /\ has_profile(upd'.user)
          /\ conv[upd'.user] = NoConv )
        => /\ \E r \in reports' :
                 /\ r \notin reports
                 /\ reports' = reports \cup {r}
                 /\ r.category = "chat"
                 /\ r.reason = <<"~s","~p","~a","~m">>
           /\ conv'[upd'.user] = NoConv ]_vars

\* C19 (profile deletion requires privilege): a press of delete_confirm by a user
\* who is neither the super-admin nor in the admin set is refused and leaves the
\* profile store unchanged.
C19_DeleteRequiresPrivilege ==
    [][ ( /\ ev'.op = "delete_confirm"
          /\ updates' # updates
          /\ ev'.user # SUPER_ADMIN_ID /\ ev'.user \notin ADMIN_IDS )
        => ( /\ profiles' = profiles
             /\ ev'.resp = "denied" ) ]_vars

\* C20 (review and report-clearing are guarded at call time): a review press
\* (any action) or a clear-all-reports press by a user who is neither the
\* super-admin nor in the admin set is answered with the access-denied message
\* and changes neither the profile store, the report store nor the cache.
C20_GuardedAtCallTime ==
    [][ ( /\ upd'.handler \in {"admin_review_cb", "admin_clear_reports"}
          /\ upd'.user # SUPER_ADMIN_ID /\ upd'.user \notin ADMIN_IDS )
        => ( /\ ev'.resp = "denied"
             /\ profiles' = profiles /\ seq' = seq
             /\ reports' = reports /\ rseq' = rseq
             /\ cache' = cache ) ]_vars

\* a member pressed clear-all-reports while reports were stored, and was refused
C20_Witness ==
    /\ upd.handler = "admin_clear_reports" /\ ev.resp = "denied"
    /\ upd.user # SUPER_ADMIN_ID /\ upd.user \notin ADMIN_IDS
    /\ reports # {}

(***************************************************************************)
(* Properties of the privilege checks, of the notification fan-out, of the *)
(* retry of transport calls and of the profile cache                       *)
(***************************************************************************)
\* the privilege-checked handlers, by name, run by user u on username n
Handle(h, u, n) ==
    \/ h = "view_profile_cb" /\ ViewProfileCb(u, n)
    \/ h = "delete_profile_cb" /\ DeleteProfileCb(u, n)
    \/ h = "export_csv_cmd" /\ ExportCsvCmd(u)
    \/ h = "admin_panel_entry" /\ AdminPanelEntry(u)
    \/ h = "admin_reports_view" /\ AdminReportsView(u)
    \/ h = "admin_new_profiles_view" /\ AdminNewProfilesView(u)
    \/ h = "admin_manage_profiles" /\ AdminManageProfiles(u)
    \/ h = "admin_profile_action" /\ AdminProfileAction(u, n)
    \/ h = "admin_edit_profile_start" /\ AdminEditProfileStart(u, n)
    \/ h = "admin_delete_profile" /\ AdminDeleteProfile(u, n)
    \/ h = "admin_afk_requests" /\ AdminAfkRequests(u)
    \/ h = "admin_admin_applications" /\ AdminAdminApplications(u)
    \/ h = "admin_clear_reports" /\ AdminClearReports(u)
    \/ \E pid \in Ids, a \in ReviewActions :
          h = "admin_review_cb" /\ AdminReviewCb(u, pid, a)
PrivilegeChecked ==
    {"view_profile_cb", "delete_profile_cb", "export_csv_cmd", "admin_panel_entry",
     "admin_reports_view", "admin_new_profiles_view", "admin_manage_profiles",
     "admin_profile_action", "admin_edit_profile_start", "admin_delete_profile",
     "admin_afk_requests", "admin_admin_applications", "admin_clear_reports",
     "admin_review_cb"}

\* handler h, run by user u on username n in the current state, lets u in: it
\* does not answer with the refusal, and the profile card carries the admin
\* buttons
Grants(h, u, n) ==
    ENABLED ( /\ Handle(h, u, n)
              /\ ev'.resp # "denied"
              /\ (h = "view_profile_cb" /\ ev'.resp # "not_found")
                    => ev'.resp = "card_edit_delete" )

\* C21 (super-admin and admins have the same permission set): in every state
\* and for every privilege-checked handler, the super-admin is let in exactly
\* when a member of the admin set is let in.
C21_SamePermissionSet ==
    \A h \in PrivilegeChecked, n \in Usernames :
        Grants(h, SUPER_ADMIN_ID, n) <=> \E a \in ADMIN_IDS : Grants(h, a, n)


\* C22 (owner-or-admin edit): an edit confirm pressed by a user who is not in
\* the admin set leaves every profile unchanged that this user did not submit
\* (added_by_id is not the user): the edit of such a user is refused.
C22_OwnerOrAdminEdit ==
    [][ ( /\ ev'.op = "edit_confirm"
          /\ updates' # updates
          /\ ev'.user \notin ADMIN_IDS )
        => \A p \in profiles : p.added_by_id # {ev'.user} => p \in profiles' ]_vars


\* C23 (validation before persistence): every row that a new-profile confirm or
\* an edit confirm writes to the store carries a note that passes
\* validate_profile_text.
C23_ValidationBeforePersistence ==
    [][ ( /\ ev'.op \in {"new_confirm", "edit_confirm"}
          /\ updates' # updates )
        => \A p \in profiles' : p \notin profiles => validate_profile_text(p.note) ]_vars


\* the handlers that end in a notification loop over the admin recipients
FanOutHandlers ==
    {"new_confirm", "report_reason_received", "afk_receive_reason", "admin_app_receive"}

Calls == Len(retry.log)
Returned(i) == retry.log[i].result.type = "return"

\* at most max_retries calls; a call that returns is the last one and its result
\* is what the coroutine returns; the coroutine raises only after max_retries
\* calls that all raised
RetryBounded ==
    /\ Calls <= retry.max_retries
    /\ \A i \in 1..Calls : Returned(i)
          => i = Calls /\ retry.pc = "done" /\ retry.outcome.kind = "return"
    /\ retry.pc = "done"
          => /\ retry.outcome.kind \in {"return", "raise"}
             /\ retry.outcome.kind = "return" => Calls >= 1 /\ Returned(Calls)
             /\ retry.outcome.kind = "raise"
                   => Calls = retry.max_retries /\ \A i \in 1..Calls : ~ Returned(i)

\* C25 (bounded retry terminates): retry_telegram_request calls func at most
\* max_retries times whatever the calls do, returns the result of the first call
\* that succeeds without calling again, otherwise raises; every started request
\* comes to its end.
C25_BoundedRetryTerminates ==
    /\ [] RetryBounded
    /\ (retry.pc \in {"attempt", "sleep"}) ~> (retry.pc = "done")

\* a request with the default max_retries ended by raising after three calls
\* that failed in three different ways
C25_Witness ==
    /\ retry.pc = "done" /\ retry.outcome.kind = "raise"
    /\ retry.max_retries = MAX_RETRIES_TELEGRAM
    /\ Calls = MAX_RETRIES_TELEGRAM
    /\ {retry.log[i].result.type : i \in 1..Calls}
          = {"RetryAfter", "TelegramError", "Exception"}

\* C26 (retry surfaces the last error): when all attempts have failed, the
\* error raised to the caller is the error of the last attempt.
C26_LastErrorSurfaced ==
    (retry.pc = "done" /\ retry.outcome.kind = "raise" /\ Calls >= 1)
    => retry.outcome.error = {Error(retry.log[Calls].result.type, Calls - 1)}

\* C27 (retry-after is honored): after a call that failed with 'retry after N
\* seconds' the next call is made no earlier than N seconds later; after a call
\* in attempt k that failed otherwise, the wait that is asked for before the
\* next call is backoff_factor^k, and the next call is not made earlier.
C27_RetryAfterHonored ==
    \A i \in 1..(Calls - 1) :
        LET this == retry.log[i]
            next == retry.log[i + 1]
        IN IF this.result.type = "RetryAfter"
           THEN next.at >= this.at + this.result.retry_after
           ELSE /\ this.wait = pow(retry.backoff_factor, i - 1)
                /\ next.at >= this.at + this.wait

\* a call was answered 'retry after 2 seconds' and the next call failed
\* otherwise, and a third call was made
C27_Witness ==
    /\ Calls = 3
    /\ retry.log[1].result = [type |-> "RetryAfter", retry_after |-> 2]
    /\ retry.log[2].result.type = "TelegramError"
    /\ retry.log[2].at >= 2
    /\ retry.log[3].at >= retry.log[2].at + retry.backoff_factor


\* the moderation step that has just run has changed the store
Moderated(ops) == ev'.op \in ops /\ profiles' # profiles

\* C28 (cache invalidation on moderation transitions): after approve the cached
\* entry of the record, if any, shows status approved; after reject or direct
\* delete the cache has no entry under the record's id, as the store has no row.
C28_CacheInvalidatedOnModeration ==
    [][ /\ Moderated({"review_accept"})
           => \A c \in cache'[ev'.pid] : c.status = {"approved"}
        /\ Moderated({"review_reject", "review_delete"})
           => /\ get_profile_by_id(profiles', ev'.pid) = {}
              /\ cache'[ev'.pid] = {}
      ]_vars

\* the cached record c shows the field values of the stored row p; a cached
\* record without a status says nothing about the status
SameFields(c, p) ==
    /\ c.id = p.id
    /\ c.username = p.username
    /\ c.note = p.note
    /\ c.added_by = p.added_by
    /\ c.added_by_id = p.added_by_id
    /\ c.status # {} => c.status = {p.status}

\* the step that has just run is a write path that changed a profile's content
ContentWritten ==
    \/ ev'.op = "new_confirm" /\ ev'.resp = "submitted"
    \/ ev'.op = "edit_confirm" /\ ev'.resp = "updated"

\* C29 (cache-store consistency on writes): after a successful new-profile
\* confirm or edit confirm, the cache entry under the id of the written
\* profile, if there is one, has the field values of the stored row.
C29_CacheStoreConsistency ==
    [][ ContentWritten
        => \A p \in get_profile_by_username(profiles', ev'.uname) :
              \A c \in cache'[p.id] : SameFields(c, p)
      ]_vars

\* the id has not been set, or the latest set of the id is no longer ago than
\* the TTL
WithinTTL(pid) ==
    \A t \in history.set_at[pid] : now - t <= PROFILE_CACHE_TTL

\* C30 (the profile cache behaves like a map within the TTL): get(pid) returns
\* what the map described by the calls holds for pid, which is the record of
\* the latest set(pid) merged with the fields of the later update(pid) calls
\* and None after invalidate(pid), after invalidate_all() and when pid was
\* never set; an update of an absent pid creates no entry; no call raises,
\* whatever becomes of the write of the cache file.
C30_CacheBehavesLikeMap ==
    LET last == history.last IN
    /\ ~ last.raised
    /\ (last.op = "get" /\ WithinTTL(last.pid))
          => last.result = history.map[last.pid]
    /\ (last.op = "update" /\ history.map[last.pid] = {})
          => cache[last.pid] = {}

\* within the TTL of its set, a get has returned a record that carries a field
\* added by a later update, after a write of the cache file that failed, and
\* the other id has no entry after an update of it
C30_Witness ==
    LET last == history.last IN
    /\ last.op = "get" /\ last.pid = 1
    /\ history.set_at[1] # {} /\ WithinTTL(1)
    /\ \E r \in last.result : "reviewed_by_id" \in DOMAIN r
    /\ cache_file # cache
    /\ history.map[MaxId] = {} /\ cache[MaxId] = {}
    /\ now > 0

\* the number of entries t of the sequence of times s with lo <= t < hi
RECURSIVE CountIn(_, _, _)
CountIn(s, lo, hi) ==
    IF s = <<>> THEN 0
    ELSE (IF lo <= Head(s) /\ Head(s) < hi THEN 1 ELSE 0) + CountIn(Tail(s), lo, hi)

\* the allowed calls of the user before the last call
GrantedBefore(u) ==
    LET g == verdicts.granted[u] IN
    IF verdicts.last.op = "is_allowed" /\ verdicts.last.user = u /\ verdicts.last.allowed
    THEN SubSeq(g, 1, Len(g) - 1) ELSE g

\* C31 (rate limit bound): in every window of time_period seconds (from t up to,
\* not including, t + time_period) at most max_rate calls of a user were
\* allowed; a call is refused exactly when max_rate allowed calls of the user
\* lie less than time_period seconds back; the recorded requests are allowed
\* calls only; get_reset_time right after a refusal (at the same time) is > 0.
C31_RateLimitBound ==
    LET last == verdicts.last IN
    /\ \A u \in Users : \A t \in 0..MaxClock :
          CountIn(verdicts.granted[u], t, t + limiter.time_period) <= limiter.max_rate
    /\ last.op = "is_allowed"
          => (~ last.allowed <=>
                 CountIn(GrantedBefore(last.user), last.at - limiter.time_period + 1,
                         last.at + 1) >= limiter.max_rate)
    /\ \A u \in Users : \A t \in 0..MaxClock :
          CountIn(limiter.requests[u], t, t + 1) <= CountIn(verdicts.granted[u], t, t + 1)
    /\ last.after_refusal => last.reset > 0

\* a user was allowed max_rate calls, refused the next one and told a reset
\* time, while the other user was still allowed
C31_Witness ==
    /\ verdicts.last.after_refusal
    /\ Len(verdicts.granted[verdicts.last.user]) = limiter.max_rate
    /\ \E u \in Users : u # verdicts.last.user /\ verdicts.granted[u] # <<>>

\* C32 as stated (seeding is idempotent): after init_db every seed username has
\* a row with status 'approved'; init_db run again adds no second row of a
\* username and leaves every row that existed as it was.
C32_SeedingIdempotent ==
    [][ ev'.op = "restart"
        => /\ \A name \in SeedUsernames :
                 \E p \in get_profile_by_username(profiles', name) : p.status = "approved"
           /\ profiles \subseteq profiles'
           /\ \A p, q \in profiles' : p.username = q.username => p = q
      ]_vars

\* C32 as amended: after init_db every seed username has a row; a row that
\* init_db inserts is a seed row with status 'approved' and a fresh id;
\* init_db adds no second row of a username and leaves every row that existed
\* as it was, whatever its status.
C32_SeedingKeepsExisting ==
    [][ ev'.op = "restart"
        => /\ \A name \in SeedUsernames : get_profile_by_username(profiles', name) # {}
           /\ \A p \in profiles' \ profiles :
                 /\ p = SeedRow(p.id, p.username)
                 /\ p.username \in SeedUsernames
                 /\ p.id > seq
           /\ profiles \subseteq profiles'
           /\ \A p, q \in profiles' : p.username = q.username => p = q
      ]_vars

\* init_db has run on a store in which the seed username belongs to a pending
\* row that a user submitted
C32_Witness ==
    /\ ev.op = "restart"
    /\ \E p \in profiles :
          p.username \in SeedUsernames /\ p.status = "pending" /\ p.added_by_id # {}

\* the ids that add_report has returned since the last clear, oldest first
AddedIds == [i \in 1..Len(filed.added) |-> filed.added[i][1]]

\* C33 (report store): add_report returns an id that no report had before;
\* get_reports returns exactly the reports added since the last clear, each
\* with the fields it was added with, newest first (strictly descending id);
\* clear_reports removes all reports and returns true exactly when there was
\* one.
C33_ReportStore ==
    LET last == filed.last
        n == Len(filed.added)
    IN
    /\ \A i, j \in 1..n : i < j => AddedIds[i] < AddedIds[j]
    /\ last.op = "add_report" => last.rid = AddedIds[n] /\ last.rid = rseq
    /\ last.op = "get_reports"
          => /\ Len(last.rows) = n
             /\ \A i \in 1..n :
                   LET row == last.rows[i]
                       was == filed.added[n + 1 - i]
                   IN /\ row.id = was[1]
                      /\ row.reporter_id = was[2].reporter_id
                      /\ row.category = was[2].category
                      /\ row.reason = was[2].reason
             /\ \A i \in 1..(n - 1) : last.rows[i].id > last.rows[i + 1].id
    /\ last.op = "clear_reports" => reports = {} /\ n = 0
    /\ last.op = "clear_reports" => (last.ok <=> last.had)
    /\ Cardinality(reports) = n

\* two reports were added after a clear that removed an earlier one, and
\* get_reports has returned the two
C33_Witness ==
    /\ filed.last.op = "get_reports"
    /\ Len(filed.last.rows) = 2
    /\ filed.last.rows[2].id > 1

\* the last event is a list or a card sent to a user who is neither admin nor
\* super-admin
ShownToMember ==
    /\ ev.op \in {"users_list", "back_to_users", "view_profile"}
    /\ ~ IsAdmin(ev.user)

\* C34 (approved-only directory): every user list and every profile card shown
\* to a user who is neither admin nor super-admin holds approved profiles only.
C34_ApprovedOnlyDirectory ==
    ShownToMember => \A p \in ev.shown : p.status = "approved"


\* C35: every callback data that a keyboard sent by the bot can emit (the
\* edit:<username> of a card, the new:edit of a preview, the
\* back:manage_profiles of the admin action menu, delete_confirm:<username>,
\* review:<id>:accept/reject, ...) is accepted by a registered handler: in every
\* state no button of the answer last sent is left without a handler.
C35_NoDeadButtons ==
    \A u \in recipients(ev), d \in keyboard_of(ev, profiles) :
        button_handler(conv[u], d) # "none"


\* C36: after an admin has pressed admin:edit:<username>, the next text of that
\* admin is processed as the edit by admin_receive_profile_edit: the session
\* keys of the admin edit are cleared and no new-profile draft is created.
C36_AdminEditFlow ==
    [][(upd'.kind = "text" /\ updates' # updates
          /\ user_data[upd'.user].admin_edit_username # {})
        => /\ upd'.handler = "admin_receive_profile_edit"
           /\ user_data'[upd'.user].admin_edit_username = {}
           /\ user_data'[upd'.user].admin_edit_profile = {}
           /\ user_data'[upd'.user].new_profile_preview
                 = user_data[upd'.user].new_profile_preview]_vars


\* C37: every Report that report_reason_received creates carries the category
\* the user chose with a category button after the most recent report_start; a
\* category chosen in an earlier flow, finished or cancelled, is never used.
C37_CategoryOfCurrentFlow ==
    [][\A r \in reports' \ reports :
          upd'.handler = "report_reason_received"
            => {r.category} = flow[r.reporter_id].chosen]_vars

\* C38: a user without a profile record, a user without a username included, can
\* never start the report flow: report_start refuses and leaves no report
\* session waiting, so every waiting session was started with a profile record.
C38_ReportGate ==
    \A u \in Users : conv[u].report = RP_WAIT_REASON => flow[u].had_record


\* the rows p and q differ in the note at most
SameButNote(p, q) == \A f \in DOMAIN p \ {"note"} : p[f] = q[f]

\* C39: an edit confirm (edit_profile_confirm_cb) changes only the note of the
\* profile with the edited username: the id, username, status and submitter
\* fields of that row, every other row and all reports stay as they are, and an
\* edit confirm that finds no row of the username leaves the store as it is.
C39_EditFrame ==
    [][(ev'.op = "edit_confirm" /\ updates' # updates)
        => /\ reports' = reports
           /\ \A p \in profiles : p.username # ev'.uname => p \in profiles'
           /\ \A q \in profiles' : \E p \in profiles : p.id = q.id /\ SameButNote(p, q)
           /\ Cardinality(profiles') = Cardinality(profiles)
           /\ (ev'.resp # "updated" => profiles' = profiles)]_vars

\* an edit was confirmed and the note of the row is the new text, next to a
\* row of another username
C39_Witness ==
    /\ ev.op = "edit_confirm" /\ ev.resp = "updated"
    /\ \E p \in profiles : p.username = ev.uname /\ p.note # <<>>
    /\ \E p \in profiles : p.username # ev.uname


\* at the time of the last call, the last write of the id (a set, or an update
\* that found the entry) was no longer ago than the TTL
WrittenWithinTTL(pid) ==
    \A t \in history.written_at[pid] : history.last.at - t <= PROFILE_CACHE_TTL

\* C40: get and get_all never return an entry whose last write (set or update)
\* is more than the TTL in the past, also when the process was restarted and
\* the cache file reloaded between the write and the read.
C40_TTLExpiry ==
    LET last == history.last IN
    /\ (last.op = "get" /\ last.result # {}) => WrittenWithinTTL(last.pid)
    /\ last.op = "get_all" => \A e \in last.result : WrittenWithinTTL(e[1])

====
